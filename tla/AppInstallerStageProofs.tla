------------------------ MODULE AppInstallerStageProofs ------------------------
(***************************************************************************)
(* Proofs about the stages of a command in AppInstaller: which status a    *)
(* command has while it waits, runs or ends, and what that means for its   *)
(* verdict, for its lock in applicationManager and for the packages on the *)
(* disk, where many commands meet.  For any ids and tasks, any tables in   *)
(* the order of the configuration, crashes at any point, and luna calls    *)
(* that can or cannot be sent.                                             *)
(***************************************************************************)
EXTENDS AppInstallerProofs

---------------------------------------------------------------------------
(* The invariant.                                                          *)

Stages(t) == IF cmd[t].name = "InstallTask" THEN InstallStages ELSE RemoveStages

\* t may be in this stage, and its table goes on after it.
Configured(t, stage) == stage \in Stages(t) /\ DoneStatus[stage] \in DOMAIN StepTable(t)

\* The stage that waits for a callback, and the statuses it may have meanwhile.
WaitStage ==
    [extract          |-> "IpkParseNeeded",
     appInfo          |-> "GetIpkInfoNeeded",
     closeInfo        |-> "AppCloseNeeded",
     closeLock        |-> "AppCloseNeeded",
     closeApp         |-> "AppCloseNeeded",
     ipkInstall       |-> "IpkInstallNeeded",
     serviceInstall   |-> "ServiceInstallNeeded",
     jail             |-> "RemoveJailNeeded",
     serviceUninstall |-> "ServiceUninstallNeeded",
     ipkRemove        |-> "IpkRemoveNeeded",
     dataRemove       |-> "DataRemoveNeeded"]

WaitSteps ==
    [extract          |-> {"IpkParseNeeded"},
     appInfo          |-> {"GetIpkInfoRequested"},
     closeInfo        |-> {"AppCloseRequested"},
     closeLock        |-> {"AppCloseRequested"},
     closeApp         |-> {"AppCloseRequested"},
     ipkInstall       |-> {"IpkInstallRequested", "IpkInstallCurrent", "IpkInstallComplete"},
     serviceInstall   |-> {"ServiceInstallRequested"},
     jail             |-> {"RemoveJailRequested"},
     serviceUninstall |-> {"ServiceUninstallNeeded"},
     ipkRemove        |-> {"IpkRemoveRequested"},
     dataRemove       |-> {"DataRemoveRequested"}]

\* What t ends with is a verdict, if neither a missing luna directory nor a call that
\* could not be sent ends it.
Verdict(t) ==
    \/ error[t] /\ step[t] \in ErrorSteps
    \/ ~error[t] /\ step[t] = IF cmd[t].name = "InstallTask" THEN "InstallComplete"
                                                            ELSE "RemoveComplete"
    \/ ~error[t] /\ step[t] \in {"IpkInstallRequested", "IpkInstallCurrent"}

Ends(t) == ~SendMayFail /\ LunaDirs = BOOLEAN => Verdict(t)

IsRollback(t) == cmd[t].cleans # NoPlace

\* The deferred call c of t finds it with the status it was made for.
Fits(c, t) ==
    /\ c = "proceed" => ~error[t] /\ step[t] \in DOMAIN StepTable(t)
    /\ c = "jailFailed" =>
           ~error[t] /\ step[t] = "RemoveJailRequested" /\ Configured(t, "RemoveJailNeeded")
    /\ c = "serviceFailed" => error[t] /\ step[t] = "ErrorInstall"

\* What a command may wait for that an outer frame ends, or has ended.
LateWaits == {"none", "appInfo", "closeInfo", "closeLock", "closeApp", "ipkRemove"}

\* The status of t fits what continues it.
InStage(t) ==
    /\ current = t /\ call = "step" => ~error[t] /\ Configured(t, step[t])
    /\ current = t /\ call = "proceed" /\ ~finished[t] =>
           \/ error[t] /\ step[t] \in ErrorSteps
           \/ ~error[t] /\ step[t] \in DOMAIN StepTable(t)
           \/ ~error[t] /\ step[t] \in {"IpkInstallRequested", "IpkInstallCurrent"}
           \/ ~error[t] /\ step[t] = "RemoveComplete" /\ IsRollback(t)
    /\ current = t /\ call = "finish" => Ends(t)
    /\ waiting[t] # "none" =>
           /\ Configured(t, WaitStage[waiting[t]])
           /\ IF finished[t] \/ current = t
              THEN waiting[t] \in LateWaits
              ELSE ~error[t] /\ step[t] \in WaitSteps[waiting[t]]
    /\ \A k \in DOMAIN deferred : deferred[k].task = t => Fits(deferred[k].call, t)
    /\ finished[t] => Ends(t)

\* The statuses before an app is closed, and before its package is known.
BeforeParse == {"Unknown", "IpkParseNeeded"}
BeforeClose ==
    BeforeParse \cup {"IpkParseComplete", "GetIpkInfoNeeded", "GetIpkInfoRequested",
                      "GetIpkInfoComplete", "AppCloseNeeded"}

\* A command of a kind has the package that its kind of command can have.
Packaged(t) ==
    /\ IsRollback(t) => cmd[t].name = "RemoveTask"
    /\ cmd[t].name = "RemoveTask" \/ cmd[t].pwa => pkg[t] = cmd[t].id
    /\ cmd[t].verify => pkg[t] \in {NoApp, cmd[t].id}
    /\ cmd[t].name = "RemoveTask" => ~cmd[t].pwa
    /\ cmd[t].name = "InstallTask" =>
           /\ step[t] \in BeforeParse => pkg[t] = NoApp
           /\ pkg[t] = NoApp => step[t] \in BeforeParse \cup ErrorSteps
    /\ t \in held \/ unpacked[t] \/ waiting[t] \notin {"none", "extract"} => pkg[t] # NoApp

\* A rollback never gets to the user's data.
SparesData(t) ==
    IsRollback(t) =>
        step[t] \notin {"IpkRemoveComplete", "DataRemoveNeeded", "DataRemoveRequested",
                        "DataRemoveComplete"}

\* A dev command of a privileged package does not get past the closing of the app.
SparesPrivileged(t) ==
    ~cmd[t].verify /\ pkg[t] \in Privileged =>
        /\ step[t] \in BeforeClose \cup ErrorSteps /\ waiting[t] \in {"none", "extract", "appInfo"}
        /\ t \notin held /\ ~unpacked[t]

\* An object that does not exist.
Blank(t) ==
    /\ ~error[t] /\ ~unpacked[t] /\ t \notin held
    /\ pkg[t] = NoApp /\ step[t] = "Unknown"

StageOK(t) ==
    /\ cmd[t] = NoCommand => Blank(t)
    /\ cmd[t] # NoCommand => InStage(t) /\ Packaged(t) /\ SparesData(t) /\ SparesPrivileged(t)

StageInv == \A t \in Task : StageOK(t)

---------------------------------------------------------------------------
(* Every step of the model keeps the invariant.                            *)

\* What a step of t leaves alone.
Apart(t) ==
    \A u \in Task \ {t} :
        /\ cmd'[u] = cmd[u] /\ pkg'[u] = pkg[u] /\ step'[u] = step[u] /\ error'[u] = error[u]
        /\ finished'[u] = finished[u] /\ unpacked'[u] = unpacked[u] /\ waiting'[u] = waiting[u]
        /\ u \in held' <=> u \in held
        /\ current # u /\ current' # u
        /\ \A k \in DOMAIN deferred' : deferred'[k].task = u =>
               \E l \in DOMAIN deferred : deferred'[k] = deferred[l]

\* Then only t is to be looked at.
LEMMA ApartKeepsStageInv ==
    ASSUME StageInv, NEW t \in Task, Apart(t), StageOK(t)'
    PROVE  StageInv'
<1> SUFFICES ASSUME NEW u \in Task, u # t PROVE StageOK(u)'
  BY DEF StageInv
<1>1. /\ cmd'[u] = cmd[u] /\ pkg'[u] = pkg[u] /\ step'[u] = step[u] /\ error'[u] = error[u]
      /\ finished'[u] = finished[u] /\ unpacked'[u] = unpacked[u] /\ waiting'[u] = waiting[u]
      /\ u \in held' <=> u \in held
      /\ current # u /\ current' # u
      /\ \A k \in DOMAIN deferred' : deferred'[k].task = u =>
             \E l \in DOMAIN deferred : deferred'[k] = deferred[l]
      /\ StageOK(u)
  BY DEF Apart, StageInv
<1>2. /\ Stages(u)' = Stages(u) /\ StepTable(u)' = StepTable(u) /\ (IsRollback(u)' <=> IsRollback(u))
      /\ Verdict(u)' <=> Verdict(u)
  BY <1>1 DEF Stages, StepTable, IsRollback, Verdict
<1>3. /\ \A stage : Configured(u, stage)' <=> Configured(u, stage)
      /\ Ends(u)' <=> Ends(u)
  BY <1>2 DEF Configured, Ends
<1>4. \A c : Fits(c, u)' <=> Fits(c, u)
  BY <1>1, <1>2, <1>3 DEF Fits
<1>5. CASE cmd[u] = NoCommand
  BY <1>1, <1>5 DEF StageOK, Blank
<1>6. CASE cmd[u] # NoCommand
  <2>1. InStage(u) /\ Packaged(u) /\ SparesData(u) /\ SparesPrivileged(u)
    BY <1>1, <1>6 DEF StageOK
  <2>2. InStage(u)'
    BY <2>1, <1>1, <1>2, <1>3, <1>4 DEF InStage
  <2>3. Packaged(u)' /\ SparesData(u)' /\ SparesPrivileged(u)'
    BY <2>1, <1>1, <1>2 DEF Packaged, SparesData, SparesPrivileged
  <2> QED BY <2>2, <2>3, <1>1, <1>6 DEF StageOK
<1> QED BY <1>5, <1>6

\* A step runs for a live command that nothing else continues, unless an outer frame
\* will end it.
LEMMA StepContext ==
    ASSUME IInv, ConstantsAssumption, NEW t \in Task, Step(t)
    PROVE  /\ call = "step" /\ current = t /\ t # NoTask
           /\ unwind # "none" => SendMayFail /\ step[t] \in NestedSteps
           /\ cmd[t] \in Command /\ cmd[t] # NoCommand /\ ~finished[t] /\ waiting[t] = "none"
           /\ \A k \in DOMAIN deferred : deferred[k].task # t
<1>1. InStep(t)
  BY DEF Step, InStep, Starting, StartIpkParse, StartGetIpkInfo, StartAppClose, StartIpkInstall,
         StartUnpackagedInstall, StartServiceInstall, StartInstallSmack, StartRemove,
         StartRemoveJail, StartRemoveSmack, StartServiceUninstall, StartIpkRemove, StartDataRemove
<1>2. /\ call = "step" /\ current = t /\ t # NoTask /\ cmd[t] # NoCommand
      /\ ~finished[t] /\ waiting[t] = "none"
      /\ unwind # "none" => SendMayFail /\ step[t] \in NestedSteps
  BY <1>1 DEF InStep, ConstantsAssumption, IInv, FramesOK, Orderly
<1>3. ~IsDeferred(t)
  BY <1>2 DEF IInv, CallsAreForLive
<1> QED BY <1>2, <1>3 DEF IInv, TypeOK, IsDeferred

LEMMA LastCall ==
    ASSUME deferred \in Seq(DeferredCall), NEW c \in TaskCalls, NEW t \in Task,
           deferred' \in {deferred, Append(deferred, TaskCall(c, t))}
    PROVE  \A k \in DOMAIN deferred' :
               \/ \E l \in DOMAIN deferred : deferred'[k] = deferred[l]
               \/ /\ deferred' # deferred
                  /\ deferred'[k].task = t /\ deferred'[k].call = c
<1>1. CASE deferred' = deferred
  BY <1>1
<1>2. CASE deferred' = Append(deferred, TaskCall(c, t)) /\ deferred' # deferred
  <2>1. /\ Len(deferred) \in Nat /\ DOMAIN deferred = 1 .. Len(deferred)
        /\ DOMAIN deferred' = 1 .. Len(deferred) + 1
        /\ \A k \in 1 .. Len(deferred) : deferred'[k] = deferred[k]
        /\ deferred'[Len(deferred) + 1] = TaskCall(c, t)
    BY <1>2
  <2>2. \A k \in DOMAIN deferred' : k \in DOMAIN deferred \/ k = Len(deferred) + 1
    BY <2>1
  <2>3. TaskCall(c, t).task = t /\ TaskCall(c, t).call = c
    BY DEF TaskCall
  <2> QED BY <1>2, <2>1, <2>2, <2>3
<1> QED BY <1>1, <1>2

\* A step leaves a status that fits what it returned.
LEMMA StepKeepsStages ==
    ASSUME IInv, StageInv, ConstantsAssumption, NEW t \in Task, Step(t)
    PROVE  Apart(t) /\ StageOK(t)'
<1>0. /\ call = "step" /\ current = t /\ t # NoTask
      /\ unwind # "none" => SendMayFail /\ step[t] \in NestedSteps
      /\ cmd[t] \in Command /\ cmd[t] # NoCommand /\ ~finished[t] /\ waiting[t] = "none"
      /\ \A k \in DOMAIN deferred : deferred[k].task # t
  BY StepContext
<1> USE <1>0
<1>a. /\ step \in [Task -> TaskStep] /\ error \in [Task -> BOOLEAN] /\ waiting \in [Task -> Waits]
      /\ unpacked \in [Task -> BOOLEAN] /\ pkg \in [Task -> Package] /\ deferred \in Seq(DeferredCall)
      /\ unwind \in {"none", "finish", "report"}
  BY DEF IInv, TypeOK
<1>b. InStage(t) /\ Packaged(t) /\ SparesData(t) /\ SparesPrivileged(t)
  BY DEF StageInv, StageOK
<1>c. \A u \in Task : u # NoTask
  BY DEF ConstantsAssumption
<1>d. /\ cmd[t].name \in {"InstallTask", "RemoveTask"} /\ cmd[t].verify \in BOOLEAN
      /\ cmd[t].id # NoApp
  BY DEF Command, ConstantsAssumption
<1>e. step[t] \notin BeforeParse \cup ErrorSteps => pkg[t] # NoApp
  BY <1>b, <1>d DEF Packaged
<1> USE DEF Starting, Sent, Spawn, NotSpawned, SetStep, SetError, Await, Proceed, ProceedThenFail, Fail, Return
<1> USE DEF ErrorSteps, ErrorOf, taskVars, envVars, loopVars
<1>1. CASE StartIpkParse(t)
  <2>1. Apart(t)
    BY <1>1, <1>a, <1>c DEF StartIpkParse, Apart
  <2>2. cmd' = cmd /\ Stages(t)' = Stages(t) /\ StepTable(t)' = StepTable(t)
    BY <1>1 DEF StartIpkParse, Stages, StepTable
  <2>3. InStage(t)'
    BY <1>1, <1>a, <1>b, <2>2 DEF StartIpkParse, InStage, Configured, WaitStage, WaitSteps, DoneStatus, Fits, Ends, LateWaits, NestedSteps
  <2>4. Packaged(t)' /\ SparesData(t)' /\ SparesPrivileged(t)'
    BY <1>1, <1>a, <1>b, <1>d, <1>e, <2>2 DEF StartIpkParse, Packaged, SparesData, SparesPrivileged, IsRollback, BeforeParse, BeforeClose
  <2> QED BY <2>1, <2>2, <2>3, <2>4 DEF StageOK
<1>2. CASE StartGetIpkInfo(t)
  <2>1. Apart(t)
    BY <1>2, <1>a, <1>c DEF StartGetIpkInfo, Apart
  <2>2. cmd' = cmd /\ Stages(t)' = Stages(t) /\ StepTable(t)' = StepTable(t)
    BY <1>2 DEF StartGetIpkInfo, Stages, StepTable
  <2>3. InStage(t)'
    BY <1>2, <1>a, <1>b, <2>2 DEF StartGetIpkInfo, InStage, Configured, WaitStage, WaitSteps, DoneStatus, Fits, Ends, LateWaits, NestedSteps
  <2>4. Packaged(t)' /\ SparesData(t)' /\ SparesPrivileged(t)'
    BY <1>2, <1>a, <1>b, <1>d, <1>e, <2>2 DEF StartGetIpkInfo, Packaged, SparesData, SparesPrivileged, IsRollback, BeforeParse, BeforeClose
  <2> QED BY <2>1, <2>2, <2>3, <2>4 DEF StageOK
<1>3. CASE StartAppClose(t)
  <2>1. Apart(t)
    BY <1>3, <1>a, <1>c DEF StartAppClose, Apart
  <2>2. cmd' = cmd /\ Stages(t)' = Stages(t) /\ StepTable(t)' = StepTable(t)
    BY <1>3 DEF StartAppClose, Stages, StepTable
  <2>3. InStage(t)'
    BY <1>3, <1>a, <1>b, <2>2 DEF StartAppClose, InStage, Configured, WaitStage, WaitSteps, DoneStatus, Fits, Refused, Ends, LateWaits, NestedSteps
  <2>4. Packaged(t)' /\ SparesData(t)' /\ SparesPrivileged(t)'
    BY <1>3, <1>a, <1>b, <1>d, <1>e, <2>2 DEF StartAppClose, Packaged, SparesData, SparesPrivileged, IsRollback, BeforeParse, BeforeClose, Refused
  <2> QED BY <2>1, <2>2, <2>3, <2>4 DEF StageOK
<1>4. CASE StartIpkInstall(t)
  <2>1. Apart(t)
    BY <1>4, <1>a, <1>c DEF StartIpkInstall, Apart
  <2>2. cmd' = cmd /\ Stages(t)' = Stages(t) /\ StepTable(t)' = StepTable(t)
    BY <1>4 DEF StartIpkInstall, Stages, StepTable
  <2>3. InStage(t)'
    BY <1>4, <1>a, <1>b, <2>2 DEF StartIpkInstall, InStage, Configured, WaitStage, WaitSteps, DoneStatus, Fits, Ends, Verdict, LateWaits, NestedSteps
  <2>4. Packaged(t)' /\ SparesData(t)' /\ SparesPrivileged(t)'
    BY <1>4, <1>a, <1>b, <1>d, <1>e, <2>2 DEF StartIpkInstall, Packaged, SparesData, SparesPrivileged, IsRollback, BeforeParse, BeforeClose
  <2> QED BY <2>1, <2>2, <2>3, <2>4 DEF StageOK
<1>5. CASE StartUnpackagedInstall(t)
  <2>1. Apart(t)
    BY <1>5, <1>a, <1>c DEF StartUnpackagedInstall, Apart
  <2>2. cmd' = cmd /\ Stages(t)' = Stages(t) /\ StepTable(t)' = StepTable(t)
    BY <1>5 DEF StartUnpackagedInstall, Stages, StepTable
  <2>3. InStage(t)'
    BY <1>5, <1>a, <1>b, <2>2 DEF StartUnpackagedInstall, InStage, Configured, WaitStage, WaitSteps, DoneStatus, Fits, Ends, Verdict, LateWaits, NestedSteps
  <2>4. Packaged(t)' /\ SparesData(t)' /\ SparesPrivileged(t)'
    BY <1>5, <1>a, <1>b, <1>d, <1>e, <2>2 DEF StartUnpackagedInstall, Packaged, SparesData, SparesPrivileged, IsRollback, BeforeParse, BeforeClose
  <2> QED BY <2>1, <2>2, <2>3, <2>4 DEF StageOK
<1>6. CASE StartServiceInstall(t)
  <2>0. \A k \in DOMAIN deferred' :
            \/ \E l \in DOMAIN deferred : deferred'[k] = deferred[l]
            \/ deferred' # deferred /\ deferred'[k].task = t /\ deferred'[k].call = "serviceFailed"
    BY <1>6, <1>a, LastCall DEF StartServiceInstall, TaskCalls
  <2>1. Apart(t)
    BY <1>6, <1>a, <1>c, <2>0 DEF StartServiceInstall, Apart
  <2>2. cmd' = cmd /\ Stages(t)' = Stages(t) /\ StepTable(t)' = StepTable(t)
    BY <1>6 DEF StartServiceInstall, Stages, StepTable
  <2>3. InStage(t)'
    BY <1>6, <1>a, <1>b, <1>d, <2>2, <2>0 DEF StartServiceInstall, InStage, Configured, WaitStage, WaitSteps, DoneStatus, Fits, Ends, LateWaits, NestedSteps
  <2>4. Packaged(t)' /\ SparesData(t)' /\ SparesPrivileged(t)'
    BY <1>6, <1>a, <1>b, <1>d, <1>e, <2>2 DEF StartServiceInstall, Packaged, SparesData, SparesPrivileged, IsRollback, BeforeParse, BeforeClose
  <2> QED BY <2>1, <2>2, <2>3, <2>4 DEF StageOK
<1>7. CASE StartInstallSmack(t)
  <2>1. Apart(t)
    BY <1>7, <1>a, <1>c DEF StartInstallSmack, Apart
  <2>2. cmd' = cmd /\ Stages(t)' = Stages(t) /\ StepTable(t)' = StepTable(t)
    BY <1>7 DEF StartInstallSmack, Stages, StepTable
  <2>3. InStage(t)'
    BY <1>7, <1>a, <1>b, <2>2 DEF StartInstallSmack, InStage, Configured, WaitStage, WaitSteps, DoneStatus, Fits, Ends, LateWaits, NestedSteps
  <2>4. Packaged(t)' /\ SparesData(t)' /\ SparesPrivileged(t)'
    BY <1>7, <1>a, <1>b, <1>d, <1>e, <2>2 DEF StartInstallSmack, Packaged, SparesData, SparesPrivileged, IsRollback, BeforeParse, BeforeClose
  <2> QED BY <2>1, <2>2, <2>3, <2>4 DEF StageOK
<1>8. CASE StartRemove(t)
  <2>0. \A k \in DOMAIN deferred' :
            \/ \E l \in DOMAIN deferred : deferred'[k] = deferred[l]
            \/ deferred' # deferred /\ deferred'[k].task = t /\ deferred'[k].call = "proceed"
    BY <1>8, <1>a, LastCall DEF StartRemove, TaskCalls
  <2>1. Apart(t)
    BY <1>8, <1>a, <1>c, <2>0 DEF StartRemove, Apart
  <2>2. cmd' = cmd /\ Stages(t)' = Stages(t) /\ StepTable(t)' = StepTable(t)
    BY <1>8 DEF StartRemove, Stages, StepTable
  <2>3. InStage(t)'
    BY <1>8, <1>a, <1>b, <2>2, <2>0 DEF StartRemove, InStage, Configured, WaitStage, WaitSteps, DoneStatus, Fits, Ends, LateWaits, NestedSteps
  <2>4. Packaged(t)' /\ SparesData(t)' /\ SparesPrivileged(t)'
    BY <1>8, <1>a, <1>b, <1>d, <1>e, <2>2 DEF StartRemove, Packaged, SparesData, SparesPrivileged, IsRollback, BeforeParse, BeforeClose
  <2> QED BY <2>1, <2>2, <2>3, <2>4 DEF StageOK
<1>9. CASE StartRemoveJail(t)
  <2>0. \A k \in DOMAIN deferred' :
            \/ \E l \in DOMAIN deferred : deferred'[k] = deferred[l]
            \/ deferred' # deferred /\ deferred'[k].task = t /\ deferred'[k].call = "jailFailed"
    BY <1>9, <1>a, LastCall DEF StartRemoveJail, TaskCalls
  <2>1. Apart(t)
    BY <1>9, <1>a, <1>c, <2>0 DEF StartRemoveJail, Apart
  <2>2. cmd' = cmd /\ Stages(t)' = Stages(t) /\ StepTable(t)' = StepTable(t)
    BY <1>9 DEF StartRemoveJail, Stages, StepTable
  <2>3. InStage(t)'
    BY <1>9, <1>a, <1>b, <2>2, <2>0 DEF StartRemoveJail, InStage, Configured, WaitStage, WaitSteps, DoneStatus, Fits, Ends, LateWaits, NestedSteps
  <2>4. Packaged(t)' /\ SparesData(t)' /\ SparesPrivileged(t)'
    BY <1>9, <1>a, <1>b, <1>d, <1>e, <2>2 DEF StartRemoveJail, Packaged, SparesData, SparesPrivileged, IsRollback, BeforeParse, BeforeClose
  <2> QED BY <2>1, <2>2, <2>3, <2>4 DEF StageOK
<1>10. CASE StartRemoveSmack(t)
  <2>1. Apart(t)
    BY <1>10, <1>a, <1>c DEF StartRemoveSmack, Apart
  <2>2. cmd' = cmd /\ Stages(t)' = Stages(t) /\ StepTable(t)' = StepTable(t)
    BY <1>10 DEF StartRemoveSmack, Stages, StepTable
  <2>3. InStage(t)'
    BY <1>10, <1>a, <1>b, <2>2 DEF StartRemoveSmack, InStage, Configured, WaitStage, WaitSteps, DoneStatus, Fits, Ends, LateWaits, NestedSteps
  <2>4. Packaged(t)' /\ SparesData(t)' /\ SparesPrivileged(t)'
    BY <1>10, <1>a, <1>b, <1>d, <1>e, <2>2 DEF StartRemoveSmack, Packaged, SparesData, SparesPrivileged, IsRollback, BeforeParse, BeforeClose
  <2> QED BY <2>1, <2>2, <2>3, <2>4 DEF StageOK
<1>11. CASE StartServiceUninstall(t)
  <2>1. Apart(t)
    BY <1>11, <1>a, <1>c DEF StartServiceUninstall, Apart
  <2>2. cmd' = cmd /\ Stages(t)' = Stages(t) /\ StepTable(t)' = StepTable(t)
    BY <1>11 DEF StartServiceUninstall, Stages, StepTable
  <2>3. InStage(t)'
    <3>1. CASE ~({cmd[t].verify, FALSE} \subseteq LunaDirs)
      <4>1. /\ LunaDirs # BOOLEAN /\ call' = "finish" /\ current' = t
            /\ UNCHANGED <<cmd, step, error, finished, waiting, deferred>>
        BY <1>11, <1>d, <3>1 DEF StartServiceUninstall
      <4> QED BY <4>1, <1>b, <2>2 DEF InStage, Ends
    <3>2. CASE Sent(t, step[t], "serviceUninstall")
      <4>1. /\ step[t] = "ServiceUninstallNeeded" /\ UNCHANGED <<cmd, error, finished, deferred>>
        BY <1>11 DEF StartServiceUninstall
      <4>2. unwind = "none"
        BY <4>1 DEF NestedSteps
      <4> QED BY <3>2, <4>1, <4>2, <1>a, <1>b, <2>2
              DEF InStage, Configured, WaitStage, WaitSteps, DoneStatus, Fits
    <3>3. CASE /\ SendMayFail /\ SetStep(t, "ServiceUninstallComplete") /\ UNCHANGED waiting
               /\ call' = "proceed" /\ current' = t
      <4>1. /\ step[t] = "ServiceUninstallNeeded" /\ UNCHANGED <<cmd, error, finished, deferred>>
        BY <1>11 DEF StartServiceUninstall
      <4> QED BY <3>3, <4>1, <1>a, <1>b, <2>2 DEF InStage, Configured, DoneStatus, Fits
    <3> QED BY <1>11, <3>1, <3>2, <3>3 DEF StartServiceUninstall
  <2>4. Packaged(t)' /\ SparesData(t)' /\ SparesPrivileged(t)'
    BY <1>11, <1>a, <1>b, <1>d, <1>e, <2>2 DEF StartServiceUninstall, Packaged, SparesData, SparesPrivileged, IsRollback, BeforeParse, BeforeClose
  <2> QED BY <2>1, <2>2, <2>3, <2>4 DEF StageOK
<1>12. CASE StartIpkRemove(t)
  <2>1. Apart(t)
    BY <1>12, <1>a, <1>c DEF StartIpkRemove, Apart
  <2>2. cmd' = cmd /\ Stages(t)' = Stages(t) /\ StepTable(t)' = StepTable(t)
    BY <1>12 DEF StartIpkRemove, Stages, StepTable
  <2>3. InStage(t)'
    BY <1>12, <1>a, <1>b, <2>2 DEF StartIpkRemove, InStage, Configured, WaitStage, WaitSteps, DoneStatus, Fits, Ends, LateWaits, NestedSteps
  <2>4. Packaged(t)' /\ SparesData(t)' /\ SparesPrivileged(t)'
    BY <1>12, <1>a, <1>b, <1>d, <1>e, <2>2 DEF StartIpkRemove, Packaged, SparesData, SparesPrivileged, IsRollback, BeforeParse, BeforeClose
  <2> QED BY <2>1, <2>2, <2>3, <2>4 DEF StageOK
<1>13. CASE StartDataRemove(t)
  <2>1. Apart(t)
    BY <1>13, <1>a, <1>c DEF StartDataRemove, Apart
  <2>2. cmd' = cmd /\ Stages(t)' = Stages(t) /\ StepTable(t)' = StepTable(t)
    BY <1>13 DEF StartDataRemove, Stages, StepTable
  <2>3. InStage(t)'
    BY <1>13, <1>a, <1>b, <2>2 DEF StartDataRemove, InStage, Configured, WaitStage, WaitSteps, DoneStatus, Fits, Ends, LateWaits, NestedSteps
  <2>4. Packaged(t)' /\ SparesData(t)' /\ SparesPrivileged(t)'
    BY <1>13, <1>a, <1>b, <1>d, <1>e, <2>2 DEF StartDataRemove, Packaged, SparesData, SparesPrivileged, IsRollback, BeforeParse, BeforeClose
  <2> QED BY <2>1, <2>2, <2>3, <2>4 DEF StageOK
<1> QED BY <1>1, <1>2, <1>3, <1>4, <1>5, <1>6, <1>7, <1>8, <1>9, <1>10, <1>11, <1>12, <1>13 DEF Step

\* A callback runs for a command that nothing else continues, and that has not ended
\* while calls can be sent.
LEMMA CallbackContext ==
    ASSUME IInv, ConstantsAssumption, NEW t \in Task, Child(t) \/ Reply(t)
    PROVE  /\ call = "none" /\ current = NoTask /\ unwind = "none" /\ t # NoTask
           /\ cmd[t] \in Command /\ cmd[t] # NoCommand /\ (finished[t] => SendMayFail)
           /\ waiting[t] # "none"
           /\ \A k \in DOMAIN deferred : deferred[k].task # t
<1>1. call = "none" /\ waiting[t] # "none"
  BY DEF Child, Exit, Reply, Receives, MayDispatch, AtRest, OnPackageExtracted, InstallProgress,
         OnIpkInstalled, OnRemoveJail, OnIpkRemoved, OnAppInfo, OnCloseInfo, OnCloseLock, OnAppClosed,
         OnServiceInstalled, OnServiceUninstalled, OnDataRemoved
<1>2. /\ cmd[t] # NoCommand /\ current = NoTask /\ unwind = "none"
      /\ finished[t] => SendMayFail
  BY <1>1 DEF IInv, FramesOK, EntriesOK, Orderly
<1>3. ~IsDeferred(t)
  BY <1>1 DEF IInv, CallsAreForLive
<1> QED BY <1>1, <1>2, <1>3 DEF IInv, TypeOK, IsDeferred, ConstantsAssumption

\* A callback leaves a status that its table has an entry for, or an error.
LEMMA CallbackKeepsStages ==
    ASSUME IInv, StageInv, ConstantsAssumption, NEW t \in Task, Child(t) \/ Reply(t)
    PROVE  Apart(t) /\ StageOK(t)'
<1>0. /\ call = "none" /\ current = NoTask /\ unwind = "none" /\ t # NoTask
      /\ cmd[t] \in Command /\ cmd[t] # NoCommand /\ (finished[t] => SendMayFail)
      /\ waiting[t] # "none"
      /\ \A k \in DOMAIN deferred : deferred[k].task # t
  BY CallbackContext
<1> USE <1>0
<1>a. /\ step \in [Task -> TaskStep] /\ error \in [Task -> BOOLEAN] /\ waiting \in [Task -> Waits]
      /\ unpacked \in [Task -> BOOLEAN] /\ pkg \in [Task -> Package] /\ deferred \in Seq(DeferredCall)
  BY DEF IInv, TypeOK
<1>f. finished \in [Task -> BOOLEAN]
  BY DEF IInv, TypeOK
<1>b. InStage(t) /\ Packaged(t) /\ SparesData(t) /\ SparesPrivileged(t)
  BY DEF StageInv, StageOK
<1>c. \A u \in Task : u # NoTask
  BY DEF ConstantsAssumption
<1>d. /\ cmd[t].name \in {"InstallTask", "RemoveTask"} /\ cmd[t].verify \in BOOLEAN
      /\ cmd[t].id # NoApp /\ NoApp \notin AppId
  BY DEF Command, ConstantsAssumption
<1> USE DEF Receives, SetStep, SetError, Await, Proceed, CloseGoesOn, CloseFails
<1> USE DEF ErrorSteps, ErrorOf, taskVars, envVars, loopVars
<1>1. CASE OnPackageExtracted(t)
  <2>1. Apart(t)
    BY <1>1, <1>a, <1>c DEF OnPackageExtracted, Apart
  <2>2. cmd' = cmd /\ Stages(t)' = Stages(t) /\ StepTable(t)' = StepTable(t)
    BY <1>1 DEF OnPackageExtracted, Stages, StepTable
  <2>3. InStage(t)'
    BY <1>1, <1>a, <1>f, <1>b, <2>2 DEF OnPackageExtracted, InStage, Configured, WaitStage, WaitSteps, DoneStatus, Fits, Ends, LateWaits
  <2>4. Packaged(t)' /\ SparesData(t)' /\ SparesPrivileged(t)'
    BY <1>1, <1>a, <1>b, <1>d, <2>2 DEF OnPackageExtracted, Packaged, SparesData, SparesPrivileged, IsRollback, BeforeParse, BeforeClose, InStage, Configured, Stages, RemoveStages, WaitStage, WaitSteps, LateWaits
  <2> QED BY <2>1, <2>2, <2>3, <2>4 DEF StageOK
<1>2. CASE InstallProgress(t)
  <2>1. Apart(t)
    BY <1>2, <1>a, <1>c DEF InstallProgress, Apart, ReportedSteps
  <2>2. cmd' = cmd /\ Stages(t)' = Stages(t) /\ StepTable(t)' = StepTable(t)
    BY <1>2 DEF InstallProgress, Stages, StepTable
  <2>3. InStage(t)'
    BY <1>2, <1>a, <1>f, <1>b, <2>2 DEF InstallProgress, InStage, Configured, WaitStage, WaitSteps, DoneStatus, Fits, ReportedSteps, Ends, LateWaits
  <2>4. Packaged(t)' /\ SparesData(t)' /\ SparesPrivileged(t)'
    BY <1>2, <1>a, <1>b, <1>d, <2>2 DEF InstallProgress, Packaged, SparesData, SparesPrivileged, IsRollback, BeforeParse, BeforeClose, ReportedSteps, InStage, Configured, Stages, RemoveStages, WaitStage, WaitSteps, LateWaits
  <2> QED BY <2>1, <2>2, <2>3, <2>4 DEF StageOK
<1>3. CASE OnIpkInstalled(t)
  <2>1. Apart(t)
    BY <1>3, <1>a, <1>c DEF OnIpkInstalled, Apart, OpkgFailed
  <2>2. cmd' = cmd /\ Stages(t)' = Stages(t) /\ StepTable(t)' = StepTable(t)
    BY <1>3 DEF OnIpkInstalled, Stages, StepTable
  <2>3. InStage(t)'
    BY <1>3, <1>a, <1>f, <1>b, <2>2 DEF OnIpkInstalled, InStage, Configured, WaitStage, WaitSteps, DoneStatus, Fits, OpkgFailed, Ends, LateWaits
  <2>4. Packaged(t)' /\ SparesData(t)' /\ SparesPrivileged(t)'
    BY <1>3, <1>a, <1>b, <1>d, <2>2 DEF OnIpkInstalled, Packaged, SparesData, SparesPrivileged, IsRollback, BeforeParse, BeforeClose, OpkgFailed, InStage, Configured, Stages, RemoveStages, WaitStage, WaitSteps, LateWaits
  <2> QED BY <2>1, <2>2, <2>3, <2>4 DEF StageOK
<1>4. CASE OnRemoveJail(t)
  <2>1. Apart(t)
    BY <1>4, <1>a, <1>c DEF OnRemoveJail, Apart
  <2>2. cmd' = cmd /\ Stages(t)' = Stages(t) /\ StepTable(t)' = StepTable(t)
    BY <1>4 DEF OnRemoveJail, Stages, StepTable
  <2>3. InStage(t)'
    BY <1>4, <1>a, <1>f, <1>b, <2>2 DEF OnRemoveJail, InStage, Configured, WaitStage, WaitSteps, DoneStatus, Fits, Ends, LateWaits
  <2>4. Packaged(t)' /\ SparesData(t)' /\ SparesPrivileged(t)'
    BY <1>4, <1>a, <1>b, <1>d, <2>2 DEF OnRemoveJail, Packaged, SparesData, SparesPrivileged, IsRollback, BeforeParse, BeforeClose, InStage, Configured, Stages, RemoveStages, WaitStage, WaitSteps, LateWaits
  <2> QED BY <2>1, <2>2, <2>3, <2>4 DEF StageOK
<1>5. CASE OnIpkRemoved(t)
  <2>1. Apart(t)
    BY <1>5, <1>a, <1>c DEF OnIpkRemoved, Apart, RemovedStep, IsRollback
  <2>2. cmd' = cmd /\ Stages(t)' = Stages(t) /\ StepTable(t)' = StepTable(t)
    BY <1>5 DEF OnIpkRemoved, Stages, StepTable
  <2>3. InStage(t)'
    BY <1>5, <1>a, <1>f, <1>b, <2>2 DEF OnIpkRemoved, InStage, Configured, WaitStage, WaitSteps, DoneStatus, Fits, RemovedStep, IsRollback, Ends, LateWaits
  <2>4. Packaged(t)' /\ SparesData(t)' /\ SparesPrivileged(t)'
    BY <1>5, <1>a, <1>b, <1>d, <2>2 DEF OnIpkRemoved, Packaged, SparesData, SparesPrivileged, IsRollback, BeforeParse, BeforeClose, RemovedStep, InStage, Configured, Stages, RemoveStages, WaitStage, WaitSteps, LateWaits
  <2> QED BY <2>1, <2>2, <2>3, <2>4 DEF StageOK
<1>6. CASE OnAppInfo(t)
  <2>1. Apart(t)
    BY <1>6, <1>a, <1>c DEF OnAppInfo, Apart
  <2>2. cmd' = cmd /\ Stages(t)' = Stages(t) /\ StepTable(t)' = StepTable(t)
    BY <1>6 DEF OnAppInfo, Stages, StepTable
  <2>3. InStage(t)'
    BY <1>6, <1>a, <1>f, <1>b, <2>2 DEF OnAppInfo, InStage, Configured, WaitStage, WaitSteps, DoneStatus, Fits, Ends, LateWaits
  <2>4. Packaged(t)' /\ SparesData(t)' /\ SparesPrivileged(t)'
    BY <1>6, <1>a, <1>b, <1>d, <2>2 DEF OnAppInfo, Packaged, SparesData, SparesPrivileged, IsRollback, BeforeParse, BeforeClose, InStage, Configured, Stages, RemoveStages, WaitStage, WaitSteps, LateWaits
  <2> QED BY <2>1, <2>2, <2>3, <2>4 DEF StageOK
<1>7. CASE OnCloseInfo(t)
  <2>1. Apart(t)
    BY <1>7, <1>a, <1>c DEF OnCloseInfo, Apart
  <2>2. cmd' = cmd /\ Stages(t)' = Stages(t) /\ StepTable(t)' = StepTable(t)
    BY <1>7 DEF OnCloseInfo, Stages, StepTable
  <2>3. InStage(t)'
    BY <1>7, <1>a, <1>f, <1>b, <2>2 DEF OnCloseInfo, InStage, Configured, WaitStage, WaitSteps, DoneStatus, Fits, Ends, LateWaits
  <2>4. Packaged(t)' /\ SparesData(t)' /\ SparesPrivileged(t)'
    BY <1>7, <1>a, <1>b, <1>d, <2>2 DEF OnCloseInfo, Packaged, SparesData, SparesPrivileged, IsRollback, BeforeParse, BeforeClose, InStage, Configured, Stages, RemoveStages, WaitStage, WaitSteps, LateWaits
  <2> QED BY <2>1, <2>2, <2>3, <2>4 DEF StageOK
<1>8. CASE OnCloseLock(t)
  <2>1. Apart(t)
    BY <1>8, <1>a, <1>c DEF OnCloseLock, Apart
  <2>2. cmd' = cmd /\ Stages(t)' = Stages(t) /\ StepTable(t)' = StepTable(t)
    BY <1>8 DEF OnCloseLock, Stages, StepTable
  <2>3. InStage(t)'
    BY <1>8, <1>a, <1>f, <1>b, <2>2 DEF OnCloseLock, InStage, Configured, WaitStage, WaitSteps, DoneStatus, Fits, Ends, LateWaits
  <2>4. Packaged(t)' /\ SparesData(t)' /\ SparesPrivileged(t)'
    BY <1>8, <1>a, <1>b, <1>d, <2>2 DEF OnCloseLock, Packaged, SparesData, SparesPrivileged, IsRollback, BeforeParse, BeforeClose, InStage, Configured, Stages, RemoveStages, WaitStage, WaitSteps, LateWaits
  <2> QED BY <2>1, <2>2, <2>3, <2>4 DEF StageOK
<1>9. CASE OnAppClosed(t)
  <2>1. Apart(t)
    BY <1>9, <1>a, <1>c DEF OnAppClosed, Apart
  <2>2. cmd' = cmd /\ Stages(t)' = Stages(t) /\ StepTable(t)' = StepTable(t)
    BY <1>9 DEF OnAppClosed, Stages, StepTable
  <2>3. InStage(t)'
    BY <1>9, <1>a, <1>f, <1>b, <2>2 DEF OnAppClosed, InStage, Configured, WaitStage, WaitSteps, DoneStatus, Fits, Ends, LateWaits
  <2>4. Packaged(t)' /\ SparesData(t)' /\ SparesPrivileged(t)'
    BY <1>9, <1>a, <1>b, <1>d, <2>2 DEF OnAppClosed, Packaged, SparesData, SparesPrivileged, IsRollback, BeforeParse, BeforeClose, InStage, Configured, Stages, RemoveStages, WaitStage, WaitSteps, LateWaits
  <2> QED BY <2>1, <2>2, <2>3, <2>4 DEF StageOK
<1>10. CASE OnServiceInstalled(t)
  <2>1. Apart(t)
    BY <1>10, <1>a, <1>c DEF OnServiceInstalled, Apart
  <2>2. cmd' = cmd /\ Stages(t)' = Stages(t) /\ StepTable(t)' = StepTable(t)
    BY <1>10 DEF OnServiceInstalled, Stages, StepTable
  <2>3. InStage(t)'
    BY <1>10, <1>a, <1>f, <1>b, <2>2 DEF OnServiceInstalled, InStage, Configured, WaitStage, WaitSteps, DoneStatus, Fits, Ends, LateWaits
  <2>4. Packaged(t)' /\ SparesData(t)' /\ SparesPrivileged(t)'
    BY <1>10, <1>a, <1>b, <1>d, <2>2 DEF OnServiceInstalled, Packaged, SparesData, SparesPrivileged, IsRollback, BeforeParse, BeforeClose, InStage, Configured, Stages, RemoveStages, WaitStage, WaitSteps, LateWaits
  <2> QED BY <2>1, <2>2, <2>3, <2>4 DEF StageOK
<1>11. CASE OnServiceUninstalled(t)
  <2>1. Apart(t)
    BY <1>11, <1>a, <1>c DEF OnServiceUninstalled, Apart
  <2>2. cmd' = cmd /\ Stages(t)' = Stages(t) /\ StepTable(t)' = StepTable(t)
    BY <1>11 DEF OnServiceUninstalled, Stages, StepTable
  <2>3. InStage(t)'
    BY <1>11, <1>a, <1>f, <1>b, <2>2 DEF OnServiceUninstalled, InStage, Configured, WaitStage, WaitSteps, DoneStatus, Fits, Ends, LateWaits
  <2>4. Packaged(t)' /\ SparesData(t)' /\ SparesPrivileged(t)'
    BY <1>11, <1>a, <1>b, <1>d, <2>2 DEF OnServiceUninstalled, Packaged, SparesData, SparesPrivileged, IsRollback, BeforeParse, BeforeClose, InStage, Configured, Stages, RemoveStages, WaitStage, WaitSteps, LateWaits
  <2> QED BY <2>1, <2>2, <2>3, <2>4 DEF StageOK
<1>12. CASE OnDataRemoved(t)
  <2>1. Apart(t)
    BY <1>12, <1>a, <1>c DEF OnDataRemoved, Apart
  <2>2. cmd' = cmd /\ Stages(t)' = Stages(t) /\ StepTable(t)' = StepTable(t)
    BY <1>12 DEF OnDataRemoved, Stages, StepTable
  <2>3. InStage(t)'
    BY <1>12, <1>a, <1>f, <1>b, <2>2 DEF OnDataRemoved, InStage, Configured, WaitStage, WaitSteps, DoneStatus, Fits, Ends, LateWaits
  <2>4. Packaged(t)' /\ SparesData(t)' /\ SparesPrivileged(t)'
    BY <1>12, <1>a, <1>b, <1>d, <2>2 DEF OnDataRemoved, Packaged, SparesData, SparesPrivileged, IsRollback, BeforeParse, BeforeClose, InStage, Configured, Stages, RemoveStages, WaitStage, WaitSteps, LateWaits
  <2> QED BY <2>1, <2>2, <2>3, <2>4 DEF StageOK
<1> QED BY <1>1, <1>2, <1>3, <1>4, <1>5, <1>6, <1>7, <1>8, <1>9, <1>10, <1>11, <1>12 DEF Child, Exit, Reply

\* What the configuration says of the entry a command goes on with.
LEMMA EntryOf ==
    ASSUME StepTablesInOrder, NEW t \in Task, cmd[t].name \in {"InstallTask", "RemoveTask"},
           NEW s \in DOMAIN StepTable(t), NEW next, next = StepTable(t)[s]
    PROVE  /\ s \notin {"ErrorInstall", "ErrorRemove", "IpkInstallRequested", "IpkInstallCurrent",
                        "IpkParseNeeded", "GetIpkInfoNeeded", "AppCloseNeeded", "GetIpkInfoRequested",
                        "RemoveComplete"}
           /\ next \in StepFactory => Configured(t, next)
           /\ next \notin StepFactory => next = IF cmd[t].name = "InstallTask" THEN "InstallComplete"
                                                                              ELSE "RemoveComplete"
           /\ cmd[t].name = "InstallTask" =>
                  /\ next = "IpkParseNeeded" <=> s = "Unknown"
                  /\ s \in {"IpkParseComplete", "GetIpkInfoComplete"} =>
                         next \in {"GetIpkInfoNeeded", "AppCloseNeeded"}
                  /\ next \in {"ServiceInstallNeeded", "InstallSmackNeeded", "InstallComplete"} =>
                         s \in {"IpkInstallComplete", "ServiceInstallComplete", "InstallSmackComplete"}
                  /\ next \notin {"Unknown", "DataRemoveNeeded", "IpkRemoveComplete",
                                  "DataRemoveRequested", "DataRemoveComplete"}
           /\ cmd[t].name = "RemoveTask" =>
                  /\ s = "Unknown" => next = "AppCloseNeeded"
                  /\ s \notin {"IpkParseComplete", "GetIpkInfoComplete"}
                  /\ next = "DataRemoveNeeded" => s = "IpkRemoveComplete"
                  /\ next = "RemoveComplete" => s = "DataRemoveComplete"
                  /\ next \notin {"IpkRemoveComplete", "DataRemoveRequested", "DataRemoveComplete"}
<1>1. CASE cmd[t].name = "InstallTask"
  <2>1. StepTable(t) = InstallSteps /\ Stages(t) = InstallStages
    BY <1>1 DEF StepTable, Stages
  <2>2. s \in {"Unknown", "IpkParseComplete", "GetIpkInfoComplete", "AppCloseComplete",
               "IpkInstallComplete", "ServiceInstallComplete", "InstallSmackComplete"}
    BY <2>1 DEF StepTablesInOrder, InstallsInOrder, RemovesInOrder, StagesChain, InstallStages, DoneStatus
  <2>3. next = "InstallComplete" \/ (next \in InstallStages /\ DoneStatus[next] \in DOMAIN InstallSteps)
    BY <2>1 DEF StepTablesInOrder, InstallsInOrder, RemovesInOrder, StagesChain
  <2>4. /\ next = "IpkParseNeeded" <=> s = "Unknown"
        /\ s \in {"IpkParseComplete", "GetIpkInfoComplete"} => next \in {"GetIpkInfoNeeded", "AppCloseNeeded"}
        /\ next \in {"ServiceInstallNeeded", "InstallSmackNeeded", "InstallComplete"} =>
               s \in {"IpkInstallComplete", "ServiceInstallComplete", "InstallSmackComplete"}
    BY <2>1 DEF StepTablesInOrder, InstallsInOrder, RemovesInOrder
  <2>5. next \in StepFactory => Configured(t, next)
    BY <2>1, <2>3 DEF Configured, StepFactory
  <2> QED BY <1>1, <2>2, <2>3, <2>4, <2>5 DEF InstallStages, StepFactory
<1>2. CASE cmd[t].name = "RemoveTask"
  <2>1. StepTable(t) = RemoveSteps /\ Stages(t) = RemoveStages
    BY <1>2 DEF StepTable, Stages
  <2>2. s \in {"Unknown", "AppCloseComplete", "RemoveStarted", "RemoveJailComplete", "RemoveSmackComplete",
               "ServiceUninstallComplete", "IpkRemoveComplete", "DataRemoveComplete"}
    BY <2>1 DEF StepTablesInOrder, InstallsInOrder, RemovesInOrder, StagesChain, RemoveStages, DoneStatus
  <2>3. next = "RemoveComplete" \/ (next \in RemoveStages /\ DoneStatus[next] \in DOMAIN RemoveSteps)
    BY <2>1 DEF StepTablesInOrder, InstallsInOrder, RemovesInOrder, StagesChain
  <2>4. /\ s = "Unknown" => next = "AppCloseNeeded"
        /\ next = "DataRemoveNeeded" => s = "IpkRemoveComplete"
        /\ next = "RemoveComplete" => s = "DataRemoveComplete"
    BY <2>1 DEF StepTablesInOrder, InstallsInOrder, RemovesInOrder
  <2>5. next \in StepFactory => Configured(t, next)
    BY <2>1, <2>3 DEF Configured, StepFactory
  <2> QED BY <1>2, <2>2, <2>3, <2>4, <2>5 DEF RemoveStages, StepFactory
<1> QED BY <1>1, <1>2

\* The calls that the end of a command defers are for no task; a rollback is for its root.
LEMMA FinishCallsAreOthers ==
    ASSUME deferred \in Seq(DeferredCall), ConstantsAssumption, NEW t \in Task,
           deferred' = deferred \o FinishCalls(t)
    PROVE  \A k \in DOMAIN deferred' :
               \/ \E l \in DOMAIN deferred : deferred'[k] = deferred[l]
               \/ /\ deferred'[k].task = NoTask
                  /\ deferred'[k].call = "rollback" => deferred'[k].verify = cmd[t].verify
<1> DEFINE n == Len(deferred)
           m == Len(FinishCalls(t))
<1>1. /\ n \in Nat /\ DOMAIN deferred = 1 .. n /\ m \in {1, 2}
      /\ FinishCalls(t)[1] = ReleaseCall(cmd[t].id)
      /\ m = 2 => FinishCalls(t)[2] = RollbackCall(cmd[t].id, cmd[t].verify, PlaceOf(t))
  BY DEF FinishCalls
<1>2. /\ DOMAIN deferred' = 1 .. n + m
      /\ \A k \in 1 .. n : deferred'[k] = deferred[k]
      /\ deferred'[n + 1] = ReleaseCall(cmd[t].id)
      /\ m = 2 => deferred'[n + 2] = RollbackCall(cmd[t].id, cmd[t].verify, PlaceOf(t))
  BY DEF FinishCalls
<1> HIDE DEF n, m
<1>3. /\ \A a : ReleaseCall(a).task = NoTask /\ ReleaseCall(a).call = "release"
      /\ \A a, v, p : RollbackCall(a, v, p).task = NoTask /\ RollbackCall(a, v, p).verify = v
  BY DEF ReleaseCall, RollbackCall
<1>4. \A k \in DOMAIN deferred' : k \in DOMAIN deferred \/ k = n + 1 \/ (m = 2 /\ k = n + 2)
  <2>1. n \in Nat /\ m \in {1, 2}
    BY <1>1
  <2>2. \A k \in 1 .. n + m : k \in 1 .. n \/ k = n + 1 \/ (m = 2 /\ k = n + 2)
    BY <2>1
  <2>3. DOMAIN deferred = 1 .. n /\ DOMAIN deferred' = 1 .. n + m
    BY <1>1, <1>2
  <2>4. QED
    BY <2>2, <2>3
<1> QED BY <1>1, <1>2, <1>3, <1>4

\* Task::proceed starts a configured stage or ends the command.
LEMMA UnwindKeepsStages ==
    ASSUME IInv, StageInv, ConstantsAssumption, StepTablesInOrder, NEW t \in Task, Unwind(t)
    PROVE  Apart(t) /\ StageOK(t)'
<1>0. /\ current = t /\ t # NoTask /\ cmd[t] \in Command /\ cmd[t] # NoCommand /\ ~IsDeferred(t)
      /\ call = "proceed" => waiting[t] = "none"
      /\ call = "proceed" /\ unwind # "none" => ~finished[t]
      /\ call # "none" /\ (call = "report" \/ unwind = "report" => SendMayFail)
  <2>1. current = t /\ t # NoTask /\ call # "none"
    BY DEF Unwind, ProceedToStage, ProceedToEnd, ProceedFinished, FinishTask, Finishing, FinishAgain,
           ReportServiceFailure, ConstantsAssumption
  <2>2. ~IsDeferred(t)
    BY <2>1 DEF IInv, CallsAreForLive
  <2> QED BY <2>1, <2>2 DEF IInv, TypeOK, FramesOK, Orderly
<1>a. /\ step \in [Task -> TaskStep] /\ error \in [Task -> BOOLEAN] /\ waiting \in [Task -> Waits]
      /\ unpacked \in [Task -> BOOLEAN] /\ finished \in [Task -> BOOLEAN] /\ deferred \in Seq(DeferredCall)
  BY DEF IInv, TypeOK
<1>f. cmd \in [Task -> Command \cup {NoCommand}] /\ pkg \in [Task -> Package]
  BY DEF IInv, TypeOK
<1>b. InStage(t) /\ Packaged(t) /\ SparesData(t) /\ SparesPrivileged(t)
  BY <1>0 DEF StageInv, StageOK
<1>c. \A u \in Task : u # NoTask
  BY DEF ConstantsAssumption
<1>d. cmd[t].name \in {"InstallTask", "RemoveTask"}
  BY <1>0 DEF Command
<1>1. CASE ProceedToStage(t)
  <2> DEFINE next == StepTable(t)[step[t]]
  <2>1. /\ call = "proceed" /\ ~finished[t] /\ step[t] \in DOMAIN StepTable(t)
        /\ call' = (IF next \in StepFactory THEN "step" ELSE "finish")
        /\ step'[t] = next /\ \A u \in Task \ {t} : step'[u] = step[u]
        /\ UNCHANGED <<cmd, pkg, error, finished, unpacked, held, waiting, deferred, current>>
    BY <1>1, <1>a DEF ProceedToStage, SetStep
  <2>2. Apart(t)
    BY <2>1, <1>0, <1>c DEF Apart
  <2>3. Stages(t)' = Stages(t) /\ StepTable(t)' = StepTable(t)
    BY <2>1 DEF Stages, StepTable
  <2>4. /\ step[t] \notin {"ErrorInstall", "ErrorRemove", "IpkInstallRequested", "IpkInstallCurrent",
                          "IpkParseNeeded", "GetIpkInfoNeeded", "AppCloseNeeded", "GetIpkInfoRequested",
                          "RemoveComplete"}
        /\ next \in StepFactory => Configured(t, next)
        /\ next \notin StepFactory => next = IF cmd[t].name = "InstallTask" THEN "InstallComplete"
                                                                           ELSE "RemoveComplete"
    BY <2>1, <1>d, EntryOf
  <2>5. /\ cmd[t].name = "InstallTask" =>
               /\ next = "IpkParseNeeded" <=> step[t] = "Unknown"
               /\ step[t] \in {"IpkParseComplete", "GetIpkInfoComplete"} =>
                      next \in {"GetIpkInfoNeeded", "AppCloseNeeded"}
               /\ next \notin {"Unknown", "DataRemoveNeeded", "IpkRemoveComplete",
                               "DataRemoveRequested", "DataRemoveComplete"}
        /\ cmd[t].name = "RemoveTask" =>
               /\ step[t] = "Unknown" => next = "AppCloseNeeded"
               /\ step[t] \notin {"IpkParseComplete", "GetIpkInfoComplete"}
               /\ next = "DataRemoveNeeded" => step[t] = "IpkRemoveComplete"
               /\ next \notin {"IpkRemoveComplete", "DataRemoveRequested", "DataRemoveComplete"}
    BY <2>1, <1>d, EntryOf
  <2> HIDE DEF next
  <2>6. ~error[t]
    BY <2>1, <2>4, <1>0, <1>b DEF InStage, ErrorSteps
  <2>7. InStage(t)'
    BY <2>1, <2>3, <2>4, <2>6, <1>0, <1>b DEF InStage, Configured, Ends, Verdict, IsDeferred
  <2>8. Packaged(t)' /\ SparesData(t)' /\ SparesPrivileged(t)'
    BY <2>1, <2>4, <2>5, <1>b, <1>d DEF Packaged, SparesData, SparesPrivileged, IsRollback, BeforeParse,
                                      BeforeClose, ErrorSteps
  <2> QED BY <2>1, <2>2, <2>7, <2>8, <1>0 DEF StageOK
<1>2. CASE ProceedToEnd(t)
  <2>1. /\ call = "proceed" /\ ~finished[t] /\ step[t] \notin DOMAIN StepTable(t)
        /\ call' = "finish" /\ current' = t
        /\ UNCHANGED <<cmd, pkg, step, error, finished, unpacked, held, waiting, deferred>>
    BY <1>2 DEF ProceedToEnd, Fail, taskVars
  <2>2. Apart(t)
    BY <2>1, <1>0, <1>c DEF Apart
  <2>3. Verdict(t)
    BY <2>1, <1>0, <1>b DEF InStage, Packaged, Verdict
  <2>4. InStage(t)'
    BY <2>1, <2>3, <1>0, <1>b DEF InStage, Ends, Verdict, IsDeferred
  <2>5. Packaged(t)' /\ SparesData(t)' /\ SparesPrivileged(t)'
    BY <2>1, <1>b DEF Packaged, SparesData, SparesPrivileged, IsRollback
  <2> QED BY <2>1, <2>2, <2>4, <2>5, <1>0 DEF StageOK
<1>3. CASE FinishTask(t) \/ FinishAgain(t)
  <2>1. /\ call = "finish" /\ current' \in {t, NoTask} /\ call' \in {"none", "finish", "report"}
        /\ UNCHANGED <<cmd, pkg, step, error, unpacked, held, waiting>>
        /\ finished'[t] /\ \A u \in Task \ {t} : finished'[u] = finished[u]
    BY <1>3, <1>0, <1>a DEF FinishTask, Finishing, FinishAgain, Return, taskVars, IInv, TypeOK
  <2>2. \A k \in DOMAIN deferred' :
            \/ \E l \in DOMAIN deferred : deferred'[k] = deferred[l]
            \/ deferred'[k].task = NoTask
    <3>1. deferred' = deferred \/ deferred' = deferred \o FinishCalls(t)
      BY <1>3 DEF FinishTask, FinishAgain
    <3> QED BY <3>1, <1>a, FinishCallsAreOthers
  <2>3. Apart(t)
    BY <2>1, <2>2, <1>0, <1>c DEF Apart
  <2>4. Stages(t)' = Stages(t) /\ StepTable(t)' = StepTable(t)
    BY <2>1 DEF Stages, StepTable
  <2>6. InStage(t)'
    BY <2>1, <2>2, <2>4, <1>0, <1>b, <1>c DEF InStage, Configured, Ends, Verdict, IsDeferred
  <2>7. Packaged(t)' /\ SparesData(t)' /\ SparesPrivileged(t)'
    BY <2>1, <1>b DEF Packaged, SparesData, SparesPrivileged, IsRollback
  <2> QED BY <2>1, <2>3, <2>6, <2>7, <1>0 DEF StageOK
\* An object that was destroyed while it waited is destroyed now.
<1>4. CASE ProceedFinished(t)
  <2>1. /\ call = "proceed" /\ finished[t] /\ call' = "none" /\ current' = NoTask
        /\ UNCHANGED <<waiting, deferred>>
    BY <1>4, <1>0 DEF ProceedFinished, Return
  <2>2. CASE Destroy(t)
    <3>1. Apart(t)
      BY <2>1, <2>2, <1>0, <1>c DEF Apart, Destroy
    <3>2. StageOK(t)'
      BY <2>2, <1>a, <1>f DEF StageOK, Destroy, Blank
    <3> QED BY <3>1, <3>2
  <2>3. CASE UNCHANGED <<cmd, taskVars>>
    <3>1. Apart(t)
      BY <2>1, <2>3, <1>0, <1>c DEF Apart, taskVars
    <3>2. InStage(t)'
      BY <2>1, <2>3, <1>0, <1>b, <1>c DEF InStage, Ends, Verdict, IsDeferred, taskVars
    <3>3. Packaged(t)' /\ SparesData(t)' /\ SparesPrivileged(t)'
      BY <2>1, <2>3, <1>b DEF Packaged, SparesData, SparesPrivileged, IsRollback, taskVars
    <3> QED BY <2>3, <3>1, <3>2, <3>3, <1>0 DEF StageOK, taskVars
  <2> QED BY <1>4, <2>2, <2>3 DEF ProceedFinished
<1>5. CASE ReportServiceFailure(t)
  <2>1. /\ call = "report" /\ SendMayFail /\ call' = "finish" /\ current' = t
        /\ step'[t] \in {step[t], "ErrorRemove"}
        /\ \A u \in Task \ {t} : step'[u] = step[u] /\ error'[u] = error[u]
        /\ UNCHANGED <<cmd, pkg, finished, unpacked, held, waiting, deferred>>
    BY <1>5, <1>0, <1>a DEF ReportServiceFailure, SetError, SetStep, Fail
  <2>2. Apart(t)
    BY <2>1, <1>0, <1>c DEF Apart
  <2>3. Stages(t)' = Stages(t) /\ StepTable(t)' = StepTable(t)
    BY <2>1 DEF Stages, StepTable
  <2>4. InStage(t)'
    BY <2>1, <2>3, <1>0, <1>b DEF InStage, Configured, Ends, IsDeferred
  <2>5. Packaged(t)' /\ SparesData(t)' /\ SparesPrivileged(t)'
    BY <2>1, <1>b DEF Packaged, SparesData, SparesPrivileged, IsRollback, BeforeParse, ErrorSteps
  <2> QED BY <2>1, <2>2, <2>4, <2>5, <1>0 DEF StageOK
<1> QED BY <1>1, <1>2, <1>3, <1>4, <1>5 DEF Unwind

\* What is left of the queue once its first call is made, and of a queue that grew.
LEMMA CallsLeft ==
    ASSUME deferred \in Seq(DeferredCall), deferred # <<>>, deferred' = Tail(deferred)
    PROVE  \A k \in DOMAIN deferred' : \E l \in DOMAIN deferred : deferred'[k] = deferred[l]
<1>1. /\ Len(deferred) \in Nat \ {0} /\ DOMAIN deferred = 1 .. Len(deferred)
      /\ DOMAIN deferred' = 1 .. Len(deferred) - 1
      /\ \A k \in 1 .. Len(deferred) - 1 : deferred'[k] = deferred[k + 1]
  OBVIOUS
<1>2. \A k \in DOMAIN deferred' : k + 1 \in DOMAIN deferred /\ deferred'[k] = deferred[k + 1]
  BY <1>1
<1> QED BY <1>2

LEMMA CallsWithFirst ==
    ASSUME deferred \in Seq(DeferredCall), NEW t \in Task, NEW q \in Seq(DeferredCall),
           q = deferred \/ (deferred # <<>> /\ q = Tail(deferred)),
           deferred' = Append(q, TaskCall("proceed", t))
    PROVE  \A k \in DOMAIN deferred' :
               \/ \E l \in DOMAIN deferred : deferred'[k] = deferred[l]
               \/ deferred'[k].task = t /\ deferred'[k].call = "proceed"
<1>1. \A k \in DOMAIN q : \E l \in DOMAIN deferred : q[k] = deferred[l]
  <2>1. CASE q = deferred
    BY <2>1
  <2>2. CASE deferred # <<>> /\ q = Tail(deferred)
    <3>1. /\ Len(deferred) \in Nat \ {0} /\ DOMAIN deferred = 1 .. Len(deferred)
          /\ DOMAIN q = 1 .. Len(deferred) - 1
          /\ \A k \in 1 .. Len(deferred) - 1 : q[k] = deferred[k + 1]
      BY <2>2
    <3>2. \A k \in DOMAIN q : k + 1 \in DOMAIN deferred /\ q[k] = deferred[k + 1]
      BY <3>1
    <3> QED BY <3>2
  <2> QED BY <2>1, <2>2
<1>2. /\ Len(q) \in Nat /\ DOMAIN q = 1 .. Len(q) /\ DOMAIN deferred' = 1 .. Len(q) + 1
      /\ \A k \in 1 .. Len(q) : deferred'[k] = q[k]
      /\ deferred'[Len(q) + 1] = TaskCall("proceed", t)
  OBVIOUS
<1>3. \A k \in DOMAIN deferred' : k \in DOMAIN q \/ k = Len(q) + 1
  BY <1>2
<1>4. TaskCall("proceed", t).task = t /\ TaskCall("proceed", t).call = "proceed"
  BY DEF TaskCall
<1> QED BY <1>1, <1>2, <1>3, <1>4

\* A command starts with a status that its table goes on from.
LEMMA CreateKeepsStages ==
    ASSUME IInv, StageInv, ConstantsAssumption, StepTablesInOrder, call = "none",
           NEW t \in FreeTasks, NEW c \in Command, NEW q \in Seq(DeferredCall),
           q = deferred \/ (deferred # <<>> /\ q = Tail(deferred)),
           CreateTask(t, c, q), c.cleans # NoPlace => c.name = "RemoveTask",
           c.name = "RemoveTask" => ~c.pwa
    PROVE  Apart(t) /\ StageOK(t)'
<1>1. /\ t \in Task /\ cmd[t] = NoCommand /\ c # NoCommand /\ c.id # NoApp
      /\ c.name \in {"InstallTask", "RemoveTask"} /\ c.pwa \in BOOLEAN /\ c.verify \in BOOLEAN
      /\ \A u \in Task : u # NoTask
  BY DEF FreeTasks, Command, NoCommand, ConstantsAssumption
<1>2. ~finished[t] /\ waiting[t] = "none" /\ ~IsDeferred(t) /\ current = NoTask
  BY <1>1 DEF IInv, EntriesOK, CallsAreForLive, Live, FramesOK
<1>3. /\ cmd' = [cmd EXCEPT ![t] = c] /\ pkg' = [pkg EXCEPT ![t] = InitialPackage(c)]
      /\ step' = [step EXCEPT ![t] = IF c.pwa THEN "GetIpkInfoComplete" ELSE "Unknown"]
      /\ UNCHANGED <<error, finished, unpacked, held, waiting, call, current>>
      /\ deferred' = Append(q, TaskCall("proceed", t))
  BY DEF CreateTask, loopVars
<1>4. /\ cmd \in [Task -> Command \cup {NoCommand}] /\ pkg \in [Task -> Package]
      /\ step \in [Task -> TaskStep] /\ deferred \in Seq(DeferredCall)
  BY DEF IInv, TypeOK
<1>5. \A k \in DOMAIN deferred' :
          \/ \E l \in DOMAIN deferred : deferred'[k] = deferred[l]
          \/ deferred'[k].task = t /\ deferred'[k].call = "proceed"
  BY <1>1, <1>3, <1>4, CallsWithFirst
<1>6. Apart(t)
  BY <1>1, <1>2, <1>3, <1>4, <1>5 DEF Apart
<1>7. Blank(t)
  BY <1>1 DEF StageInv, StageOK
<1>8. StepTable(t)' = IF c.name = "InstallTask" THEN InstallSteps ELSE RemoveSteps
  BY <1>1, <1>3, <1>4 DEF StepTable
<1>9. step'[t] \in DOMAIN StepTable(t)'
  BY <1>1, <1>3, <1>4, <1>8 DEF StepTablesInOrder, InstallsInOrder, RemovesInOrder, StagesChain
<1>10. InStage(t)'
  BY <1>1, <1>2, <1>3, <1>4, <1>5, <1>7, <1>9 DEF InStage, Fits, Blank, IsDeferred
<1>11. Packaged(t)' /\ SparesData(t)' /\ SparesPrivileged(t)'
  BY <1>1, <1>2, <1>3, <1>4, <1>7 DEF Packaged, SparesData, SparesPrivileged, IsRollback, BeforeParse,
                                BeforeClose, Blank, InitialPackage, ErrorSteps
<1> QED BY <1>1, <1>3, <1>4, <1>6, <1>10, <1>11 DEF StageOK

\* A release finds the command it is for, which has ended, and destroys it unless it is
\* still to be called back.
LEMMA ReleaseContext ==
    ASSUME IInv, ConstantsAssumption, ReleaseTask
    PROVE  /\ call = "none" /\ current = NoTask /\ UNCHANGED <<waiting, loopVars>>
           /\ deferred # <<>> /\ deferred' = Tail(deferred)
           /\ Head(deferred).id \in AppId
           /\ mapTask[Head(deferred).id] \in Task /\ finished[mapTask[Head(deferred).id]]
           /\ cmd[mapTask[Head(deferred).id]].id = Head(deferred).id
           /\ mapTask' = [mapTask EXCEPT ![Head(deferred).id] = NoTask]
           /\ \/ Destroy(mapTask[Head(deferred).id])
              \/ SendMayFail /\ UNCHANGED <<cmd, taskVars>>
<1> DEFINE a == Head(deferred).id
<1>1. /\ deferred \in Seq(DeferredCall) /\ deferred # <<>> /\ deferred' = Tail(deferred)
      /\ Head(deferred) \in DeferredCall /\ Head(deferred).call = "release"
      /\ call = "none" /\ current = NoTask
  BY DEF IInv, TypeOK, ReleaseTask, AtRest, FramesOK
<1>2. Head(deferred) = ReleaseCall(a) /\ a \in Package
  <2>1. \A d \in DeferredCall : d.call = "release" => d = ReleaseCall(d.id) /\ d.id \in Package
    BY DEF DeferredCall, TaskCall, ReleaseCall, RollbackCall, TaskCalls
  <2> QED BY <1>1, <2>1
<1>3. IsReleased(a)
  BY <1>1, <1>2, HeadTaken
<1>4. a \in AppId
  BY <1>2, <1>3 DEF IInv, ReleasesAnId, Package
<1>5. Known(a) /\ finished[mapTask[a]]
  BY <1>3, <1>4 DEF IInv, ReleaseOwed
<1>6. mapTask[a] \in Task /\ cmd[mapTask[a]].id = a /\ mapTask[a] # NoTask
  BY <1>4, <1>5 DEF Known, IInv, EntriesOK, TypeOK
<1>7. waiting[mapTask[a]] # "none" => SendMayFail
  BY <1>5, <1>6 DEF IInv, Orderly
<1>8. /\ mapTask' = [mapTask EXCEPT ![a] = NoTask] /\ UNCHANGED <<waiting, loopVars>>
      /\ Destroy(mapTask[a]) \/ (SendMayFail /\ UNCHANGED <<cmd, taskVars>>)
  BY <1>6, <1>7 DEF ReleaseTask
<1> QED BY <1>1, <1>4, <1>5, <1>6, <1>8

\* A step after which the commands are as they were, and no call was added.
LEMMA SameKeepsStageInv ==
    ASSUME StageInv, UNCHANGED <<cmd, taskVars, waiting, loopVars>>,
           \A k \in DOMAIN deferred' : \E l \in DOMAIN deferred : deferred'[k] = deferred[l]
    PROVE  StageInv'
<1> USE DEF taskVars, loopVars
<1> SUFFICES ASSUME NEW t \in Task PROVE StageOK(t)'
  BY DEF StageInv
<1>1. StageOK(t)
  BY DEF StageInv
<1>2. /\ Stages(t)' = Stages(t) /\ StepTable(t)' = StepTable(t) /\ (IsRollback(t)' <=> IsRollback(t))
      /\ Blank(t)' <=> Blank(t)
      /\ Verdict(t)' <=> Verdict(t)
  BY DEF Stages, StepTable, IsRollback, Blank, Verdict
<1>3. InStage(t) => InStage(t)'
  BY <1>2 DEF InStage, Fits, Configured, Ends
<1>4. Packaged(t) /\ SparesData(t) /\ SparesPrivileged(t)
      => Packaged(t)' /\ SparesData(t)' /\ SparesPrivileged(t)'
  BY <1>2 DEF Packaged, SparesData, SparesPrivileged
<1> QED BY <1>1, <1>2, <1>3, <1>4 DEF StageOK

\* What clients ask for and what the main loop goes on with.
LEMMA LoopKeepsStages ==
    ASSUME IInv, StageInv, ConstantsAssumption, StepTablesInOrder, Client \/ Deferred
    PROVE  StageInv'
<1>a. /\ step \in [Task -> TaskStep] /\ error \in [Task -> BOOLEAN] /\ cmd \in [Task -> Command \cup {NoCommand}]
      /\ deferred \in Seq(DeferredCall) /\ pkg \in [Task -> Package]
      /\ unpacked \in [Task -> BOOLEAN] /\ finished \in [Task -> BOOLEAN]
  BY DEF IInv, TypeOK
<1>b. NoPlace \in AnyPlace /\ \A u \in Task : u # NoTask
  BY DEF NoPlace, AnyPlace, Package, ConstantsAssumption
<1>1. ASSUME NEW a \in AppId, NEW v \in BOOLEAN, NEW w \in BOOLEAN, Install(a, v, w)
      PROVE  StageInv'
  <2> DEFINE c == [name |-> "InstallTask", id |-> a, verify |-> v, pwa |-> w, cleans |-> NoPlace]
  <2>1. c \in Command /\ call = "none" /\ c.cleans = NoPlace /\ c.name = "InstallTask"
    BY <1>b, <1>1 DEF Command, Install, MayDispatch, AtRest
  <2>2. PICK t \in FreeTasks : CreateTask(t, c, deferred)
    BY <1>1 DEF Install
  <2>3. t \in Task
    BY DEF FreeTasks
  <2> HIDE DEF c
  <2>4. Apart(t) /\ StageOK(t)'
    BY <1>a, <2>1, <2>2, CreateKeepsStages
  <2> QED BY <2>3, <2>4, ApartKeepsStageInv
<1>2. ASSUME NEW a \in AppId, NEW v \in BOOLEAN, Remove(a, v)
      PROVE  StageInv'
  <2> DEFINE c == [name |-> "RemoveTask", id |-> a, verify |-> v, pwa |-> FALSE, cleans |-> NoPlace]
  <2>1. c \in Command /\ call = "none" /\ c.cleans = NoPlace /\ ~c.pwa
    BY <1>b, <1>2 DEF Command, Remove, MayDispatch, AtRest
  <2>2. PICK t \in FreeTasks : CreateTask(t, c, deferred)
    BY <1>2 DEF Remove
  <2>3. t \in Task
    BY DEF FreeTasks
  <2> HIDE DEF c
  <2>4. Apart(t) /\ StageOK(t)'
    BY <1>a, <2>1, <2>2, CreateKeepsStages
  <2> QED BY <2>3, <2>4, ApartKeepsStageInv
<1>3. CASE Rollback
  <2> DEFINE d == Head(deferred)
             c == [name |-> "RemoveTask", id |-> d.id, verify |-> d.verify, pwa |-> FALSE,
                   cleans |-> d.unpacked]
  <2>1. deferred # <<>> /\ d.call = "rollback" /\ call = "none" /\ current = NoTask
    BY <1>3 DEF Rollback, AtRest, IInv, FramesOK
  <2>2. CASE Known(d.id)
    <3>1. deferred' = Tail(deferred) /\ UNCHANGED <<cmd, taskVars, waiting, loopVars>>
      BY <1>3, <2>2 DEF Rollback
    <3>2. \A k \in DOMAIN deferred' : \E l \in DOMAIN deferred : deferred'[k] = deferred[l]
      BY <3>1, <2>1, <1>a, CallsLeft
    <3> QED BY <3>1, <3>2, SameKeepsStageInv
  <2>3. CASE ~Known(d.id)
    <3>1. PICK t \in FreeTasks : CreateTask(t, c, Tail(deferred))
      BY <1>3, <2>3 DEF Rollback
    <3>2. t \in Task /\ c \in Command /\ c.name = "RemoveTask" /\ ~c.pwa /\ Tail(deferred) \in Seq(DeferredCall)
      BY <2>1, HeadType DEF FreeTasks, Command, IInv
    <3> HIDE DEF c
    <3>3. Apart(t) /\ StageOK(t)'
      BY <2>1, <3>1, <3>2, CreateKeepsStages
    <3> QED BY <3>2, <3>3, ApartKeepsStageInv
  <2> QED BY <2>2, <2>3
<1>4. CASE ReleaseTask
  <2>0. PICK t \in Task : t = mapTask[Head(deferred).id]
    BY <1>4, ReleaseContext
  <2>1. /\ Destroy(t) \/ UNCHANGED <<cmd, taskVars>>
        /\ current = NoTask /\ UNCHANGED <<waiting, loopVars>>
        /\ deferred # <<>> /\ deferred' = Tail(deferred)
    BY <1>4, <2>0, ReleaseContext
  <2>2. \A k \in DOMAIN deferred' : \E l \in DOMAIN deferred : deferred'[k] = deferred[l]
    BY <2>1, <1>a, CallsLeft
  <2>3. CASE Destroy(t)
    <3>1. Apart(t)
      BY <2>1, <2>2, <2>3, <1>a, <1>b DEF Apart, Destroy, loopVars
    <3>2. StageOK(t)'
      BY <2>3, <1>a DEF StageOK, Destroy, Blank
    <3> QED BY <3>1, <3>2, ApartKeepsStageInv
  <2>4. CASE UNCHANGED <<cmd, taskVars>>
    BY <2>1, <2>2, <2>4, SameKeepsStageInv
  <2> QED BY <2>1, <2>3, <2>4
<1>5. CASE DeferredProceed \/ DeferredServiceFailed \/ DeferredJailFailed
  <2>1. /\ call = "none" /\ current = NoTask /\ deferred # <<>> /\ Head(deferred).call \in TaskCalls
        /\ deferred' = Tail(deferred) /\ current' = Head(deferred).task /\ call' = "proceed"
        /\ UNCHANGED <<cmd, pkg, finished, unpacked, held, waiting>>
    BY <1>5 DEF DeferredProceed, DeferredServiceFailed, DeferredJailFailed, AtRest, TaskCalls, taskVars,
                Proceed, IInv, FramesOK
  <2>2. PICK t \in Task : t = Head(deferred).task
    <3>1. \A d \in DeferredCall : d.call \in TaskCalls => d.task \in Task
      BY DEF DeferredCall, TaskCall, ReleaseCall, RollbackCall, TaskCalls
    <3>2. Head(deferred) \in DeferredCall
      BY <1>a, <2>1
    <3> QED BY <2>1, <3>1, <3>2
  <2>3. /\ \A k \in DOMAIN deferred' : \E l \in DOMAIN deferred : deferred'[k] = deferred[l]
        /\ IsDeferred(t)
    BY <1>a, <2>1, <2>2, CallsLeft, HeadTaken
  <2>4. Live(t) /\ waiting[t] = "none" /\ DeferredOnce(t)
    BY <2>2, <2>3 DEF IInv, CallsAreForLive
  <2>5. ~IsDeferred(t)'
    BY <1>a, <2>1, <2>2, <2>4, HeadTaken
  <2>6. InStage(t) /\ Packaged(t) /\ SparesData(t) /\ SparesPrivileged(t) /\ Fits(Head(deferred).call, t)
    <3>1. InStage(t) /\ Packaged(t) /\ SparesData(t) /\ SparesPrivileged(t)
      BY <2>2, <2>4 DEF StageInv, StageOK, Live
    <3>2. 1 \in DOMAIN deferred /\ deferred[1] = Head(deferred)
      BY <1>a, <2>1
    <3> QED BY <2>2, <3>1, <3>2 DEF InStage
  <2>7. /\ \A u \in Task \ {t} : step'[u] = step[u] /\ error'[u] = error[u]
        /\ \/ Head(deferred).call = "proceed" /\ step'[t] = step[t] /\ error'[t] = error[t]
           \/ Head(deferred).call = "serviceFailed" /\ step'[t] = "ErrorInstall" /\ error'[t]
           \/ Head(deferred).call = "jailFailed" /\ step'[t] = "RemoveJailComplete" /\ error'[t] = error[t]
    BY <1>5, <1>a, <2>2, <2>4 DEF DeferredProceed, DeferredServiceFailed, DeferredJailFailed, SetStep, SetError,
                                  taskVars, Live
  <2>8. Apart(t)
    BY <2>1, <2>2, <2>3, <2>7, <1>b DEF Apart
  <2>9. Stages(t)' = Stages(t) /\ StepTable(t)' = StepTable(t)
    BY <2>1 DEF Stages, StepTable
  <2>10. InStage(t)'
    BY <2>1, <2>2, <2>4, <2>5, <2>6, <2>7, <2>9 DEF InStage, Fits, Configured, DoneStatus, IsDeferred, Live, ErrorSteps
  <2>11. Packaged(t)' /\ SparesData(t)' /\ SparesPrivileged(t)'
    BY <2>1, <2>6, <2>7 DEF Packaged, SparesData, SparesPrivileged, IsRollback, Fits, BeforeParse,
                            BeforeClose, ErrorSteps
  <2>12. StageOK(t)'
    BY <2>1, <2>4, <2>10, <2>11 DEF StageOK, Live
  <2> QED BY <2>8, <2>12, ApartKeepsStageInv
<1> QED BY <1>1, <1>2, <1>3, <1>4, <1>5 DEF Client, Deferred

\* A daemon that starts has no command.
LEMMA EmptyStageInv ==
    ASSUME cmd = [t \in Task |-> NoCommand], pkg = [t \in Task |-> NoApp],
           step = [t \in Task |-> "Unknown"], error = [t \in Task |-> FALSE],
           unpacked = [t \in Task |-> FALSE], held = {}
    PROVE  StageInv
BY DEF StageInv, StageOK, Blank

LEMMA CrashKeepsStageInv ==
    ASSUME Crash
    PROVE  StageInv'
BY DEF Crash, StageInv, StageOK, Blank

LEMMA NextKeepsStageInv ==
    ASSUME IInv, StageInv, ConstantsAssumption, StepTablesInOrder, [Next]_vars
    PROVE  StageInv'
<1>1. CASE Client \/ Deferred
  BY <1>1, LoopKeepsStages
<1>2. ASSUME NEW t \in Task, Unwind(t) \/ Step(t) \/ Child(t) \/ Reply(t) PROVE StageInv'
  <2>1. Apart(t) /\ StageOK(t)'
    BY <1>2, UnwindKeepsStages, StepKeepsStages, CallbackKeepsStages
  <2> QED BY <2>1, ApartKeepsStageInv
<1>3. CASE Crash
  BY <1>3, CrashKeepsStageInv
<1>4. CASE UNCHANGED vars \/ \E p \in Place : OrphanExits(p)
  <2>1. UNCHANGED <<cmd, taskVars, waiting, deferred, loopVars>>
    BY <1>4 DEF vars, OrphanExits
  <2> QED BY <2>1, SameKeepsStageInv
<1> QED BY <1>1, <1>2, <1>3, <1>4 DEF Next

\* The invariant holds in every state.
LEMMA StagesHold == Spec => [](IInv /\ StageInv)
<1> USE ConstantsAssumption, StepTablesInOrder
<1>1. Init => StageInv
  BY EmptyStageInv DEF Init
<1>2. IInv /\ StageInv /\ [Next]_vars => StageInv'
  BY NextKeepsStageInv
<1>3. Spec => []IInv
  BY BookkeepingHolds
<1> QED BY <1>1, <1>2, <1>3, PTL DEF Spec

---------------------------------------------------------------------------
(* What follows for every command.                                         *)

(***************************************************************************)
(* The remove that the daemon starts for itself after a failed install     *)
(* never reaches the user's data, whatever calls cannot be sent.           *)
(***************************************************************************)
THEOREM UserDataAreKept == Spec => []RollbackKeepsData
<1>1. StageInv => RollbackKeepsData
  BY DEF StageInv, StageOK, SparesData, IsRollback, RollbackKeepsData, NoCommand
<1>2. Spec => [](IInv /\ StageInv)
  BY StagesHold
<1> QED BY <1>1, <1>2, PTL

(***************************************************************************)
(* Where the luna directories of both roots are configured, a command that *)
(* has ended left its client a verdict: an error status with an error      *)
(* code, or complete without one, unless opkg never said that it was done. *)
(***************************************************************************)
THEOREM CommandsEndWithVerdict ==
    ~SendMayFail /\ LunaDirs = BOOLEAN => (Spec => []EndsWithVerdict)
<1> SUFFICES ASSUME ~SendMayFail, LunaDirs = BOOLEAN PROVE Spec => []EndsWithVerdict
  OBVIOUS
<1>1. IInv /\ StageInv => EndsWithVerdict
  <2> SUFFICES ASSUME IInv, StageInv, NEW t \in Task, finished[t] PROVE Verdict(t)
    BY DEF EndsWithVerdict, Verdict
  <2>1. cmd[t] # NoCommand
    BY DEF IInv, EntriesOK
  <2>2. Ends(t)
    BY <2>1 DEF StageInv, StageOK, InStage
  <2> QED BY <2>2 DEF Ends
<1>2. Spec => [](IInv /\ StageInv)
  BY StagesHold
<1> QED BY <1>1, <1>2, PTL

\* A command with an error has a status that only ends it, and nothing to wait for.
LEMMA FailedCommandsEnd ==
    ASSUME IInv, StageInv, ~SendMayFail, ConstantsAssumption, StepTablesInOrder, NEW t \in Task, error[t]
    PROVE  /\ cmd[t] # NoCommand /\ waiting[t] = "none"
           /\ current = t => call # "step"
           /\ current = t /\ call = "proceed" => step[t] \notin DOMAIN StepTable(t)
           /\ \A k \in DOMAIN deferred :
                  deferred[k].task = t => deferred[k].call = "serviceFailed" \/ deferred[k].call \notin TaskCalls
           /\ \A k \in DOMAIN deferred :
                  deferred[k].task = t /\ deferred[k].call = "serviceFailed" => step[t] = "ErrorInstall"
<1>1. cmd[t] # NoCommand
  BY DEF StageInv, StageOK, Blank
<1>2. InStage(t) /\ cmd[t].name \in {"InstallTask", "RemoveTask"} /\ Orderly
  BY <1>1 DEF StageInv, StageOK, IInv, TypeOK, Command
<1>3. ASSUME current = t, call = "proceed" PROVE step[t] \notin DOMAIN StepTable(t)
  <2>1. step[t] \in ErrorSteps
    BY <1>2, <1>3 DEF InStage, Orderly
  <2> QED BY <2>1, <1>2, EntryOf DEF ErrorSteps
<1>4. waiting[t] = "none"
  BY <1>2 DEF InStage, Orderly
<1> QED BY <1>1, <1>2, <1>3, <1>4 DEF InStage, Fits, TaskCalls

LEMMA NothingFollowsError ==
    ASSUME IInv, StageInv, ~SendMayFail, ConstantsAssumption, StepTablesInOrder, [Next]_vars,
           NEW t \in Task, error[t], cmd'[t] = cmd[t]
    PROVE  step'[t] = step[t] /\ waiting'[t] = waiting[t]
<1>a. /\ cmd[t] # NoCommand /\ waiting[t] = "none"
      /\ current = t => call # "step"
      /\ current = t /\ call = "proceed" => step[t] \notin DOMAIN StepTable(t)
      /\ \A k \in DOMAIN deferred :
             deferred[k].task = t => deferred[k].call = "serviceFailed" \/ deferred[k].call \notin TaskCalls
      /\ \A k \in DOMAIN deferred :
             deferred[k].task = t /\ deferred[k].call = "serviceFailed" => step[t] = "ErrorInstall"
  BY FailedCommandsEnd
<1>b. step \in [Task -> TaskStep] /\ deferred \in Seq(DeferredCall)
  BY DEF IInv, TypeOK
<1>1. CASE Client \/ Rollback
  <2>1. \A u \in FreeTasks : \A c, q : CreateTask(u, c, q) => step'[t] = step[t] /\ waiting'[t] = waiting[t]
    BY <1>a, <1>b DEF CreateTask, FreeTasks
  <2>2. ASSUME NEW a \in AppId, NEW v \in BOOLEAN, NEW w \in BOOLEAN, Install(a, v, w)
        PROVE  step'[t] = step[t] /\ waiting'[t] = waiting[t]
    BY <2>1, <2>2 DEF Install
  <2>3. ASSUME NEW a \in AppId, NEW v \in BOOLEAN, Remove(a, v)
        PROVE  step'[t] = step[t] /\ waiting'[t] = waiting[t]
    BY <2>1, <2>3 DEF Remove
  <2>4. CASE Rollback
    BY <2>1, <2>4 DEF Rollback, taskVars
  <2> QED BY <1>1, <2>2, <2>3, <2>4 DEF Client
<1>2. CASE ReleaseTask
  <2>1. /\ mapTask[Head(deferred).id] \in Task /\ UNCHANGED waiting
        /\ Destroy(mapTask[Head(deferred).id])
    BY <1>2, ReleaseContext
  <2>2. mapTask[Head(deferred).id] # t
    BY <1>a, <2>1 DEF Destroy, IInv, TypeOK
  <2> QED BY <1>b, <2>1, <2>2 DEF Destroy
<1>3. CASE DeferredProceed
  BY <1>3 DEF DeferredProceed, taskVars
<1>4. CASE DeferredServiceFailed \/ DeferredJailFailed
  <2>1. deferred # <<>> /\ 1 \in DOMAIN deferred /\ deferred[1] = Head(deferred)
        /\ Head(deferred).call \in {"serviceFailed", "jailFailed"}
    BY <1>4, <1>b DEF DeferredServiceFailed, DeferredJailFailed
  <2>2. CASE Head(deferred).task # t
    BY <1>4, <1>b, <2>2 DEF DeferredServiceFailed, DeferredJailFailed, SetError, SetStep
  <2>3. CASE Head(deferred).task = t
    <3>1. Head(deferred).call = "serviceFailed" /\ step[t] = "ErrorInstall"
      BY <1>a, <2>1, <2>3 DEF TaskCalls
    <3> QED BY <1>4, <1>b, <2>3, <3>1 DEF DeferredServiceFailed, DeferredJailFailed, SetError, SetStep
  <2> QED BY <2>2, <2>3
<1>5. ASSUME NEW u \in Task, Step(u) \/ Child(u) \/ Reply(u) PROVE step'[t] = step[t] /\ waiting'[t] = waiting[t]
  <2>1. u # t
    <3>1. Step(u) => call = "step" /\ current = u
      BY StepContext
    <3>2. Child(u) \/ Reply(u) => waiting[u] # "none"
      BY CallbackContext
    <3> QED BY <1>5, <1>a, <3>1, <3>2
  <2>2. Apart(u)
    BY <1>5, StepKeepsStages, CallbackKeepsStages
  <2> QED BY <2>1, <2>2 DEF Apart
<1>6. ASSUME NEW u \in Task, Unwind(u) PROVE step'[t] = step[t] /\ waiting'[t] = waiting[t]
  <2>1. CASE u # t
    <3>1. Apart(u)
      BY <1>6, UnwindKeepsStages
    <3> QED BY <2>1, <3>1 DEF Apart
  <2>2. CASE u = t
    <3>1. ~ProceedToStage(t)
      BY <1>a DEF ProceedToStage
    <3>2. ~ProceedFinished(t) /\ ~ReportServiceFailure(t)
      BY DEF ProceedFinished, ReportServiceFailure, IInv, Orderly
    <3> QED BY <1>6, <2>2, <3>1, <3>2 DEF Unwind, ProceedToEnd, FinishTask, FinishAgain, taskVars
  <2> QED BY <2>1, <2>2
<1>7. ~Crash
  BY <1>a DEF Crash
<1>8. CASE UNCHANGED vars \/ \E p \in Place : OrphanExits(p)
  BY <1>8 DEF vars, OrphanExits, taskVars
<1> QED BY <1>1, <1>2, <1>3, <1>4, <1>5, <1>6, <1>7, <1>8 DEF Next, Deferred

(***************************************************************************)
(* A command with an error code only ends: it starts no other stage, keeps *)
(* the status of the error and waits for nothing more.                     *)
(***************************************************************************)
THEOREM FailedCommandsStop == ~SendMayFail => (Spec => NothingAfterError)
<1> USE ConstantsAssumption, StepTablesInOrder
<1> SUFFICES ASSUME ~SendMayFail PROVE Spec => NothingAfterError
  OBVIOUS
<1>1. IInv /\ StageInv /\ [Next]_vars =>
          [\A t \in Task : error[t] /\ cmd'[t] = cmd[t] =>
               step'[t] = step[t] /\ waiting'[t] = waiting[t]]_vars
  BY NothingFollowsError
<1>2. Spec => [](IInv /\ StageInv)
  BY StagesHold
<1> QED BY <1>1, <1>2, PTL DEF Spec, NothingAfterError

---------------------------------------------------------------------------
(* The device: the locks in applicationManager and the packages on the     *)
(* disk, where many commands meet.                                         *)

\* No opkg child works on a privileged package in the developer's root either.
PrivilegedInv ==
    \A p \in Privileged : disk[<<FALSE, p>>] = "absent" /\ <<FALSE, p>> \notin orphans

\* The empty package is never locked.
LeftLockedInv == crashes = 0 => NoAppLeftLocked /\ NoApp \notin appLock

\* Where no dev command is accepted, neither does the daemon make one.
AllVerified ==
    /\ \A t \in Task : cmd[t] # NoCommand => cmd[t].verify
    /\ \A k \in DOMAIN deferred : deferred[k].call = "rollback" => deferred[k].verify

LockInv == AllVerified /\ LockKept

\* The statuses of a command whose package is installed, or whose app is removed.
AfterInstall(t) ==
    \/ step[t] \in {"ServiceInstallNeeded", "ServiceInstallRequested", "ServiceInstallComplete",
                    "InstallSmackNeeded", "InstallSmackComplete", "InstallComplete"}
    \/ step[t] = "IpkInstallComplete" /\ waiting[t] = "none"

AfterRemove == {"DataRemoveComplete", "RemoveComplete"}

\* A verified command past that point has done it, an install unless its package did not
\* validate.  A remove ends in the callback that empties the directories, and a rollback in
\* that of opkg's exit, so that no other command gets between.
Done(t) ==
    Live(t) /\ cmd[t].verify =>
        /\ cmd[t].name = "InstallTask" /\ AfterInstall(t) /\ unpacked[t] =>
               IsInstalled(<<TRUE, cmd[t].id>>)
        /\ cmd[t].name = "InstallTask" => step[t] # "RemoveComplete"
        /\ cmd[t].name = "RemoveTask" /\ ~IsRollback(t) /\ step[t] \in AfterRemove =>
               current = t /\ \A p \in AppDirs(t) : disk[p] = "absent"
        /\ cmd[t].name = "RemoveTask" /\ IsRollback(t) /\ step[t] = "RemoveComplete" =>
               current = t /\ disk[RemovedPlace(t)] # "package"
        /\ cmd[t].name = "RemoveTask" => step[t] # "InstallComplete"

\* A daemon that is asked for no unpackaged install makes none.
NoneUnpackaged == PwaIds = {} => \A t \in Task : ~cmd[t].pwa

\* Then what an opkg child removes for a command that was given up is not what another
\* command has installed: that one needed the opkg lock.
RemovedAlone ==
    PwaIds = {} =>
        \A t, u \in Task :
            /\ t # u /\ waiting[u] = "ipkRemove"
            /\ Live(t) /\ cmd[t].name = "InstallTask" /\ cmd[u].id = cmd[t].id
            => ~AfterInstall(t)

DoneInv ==
    /\ NoneUnpackaged
    /\ RemovedAlone
    /\ crashes = 0 => orphans = {} /\ \A t \in Task : Done(t)

---------------------------------------------------------------------------
(* What a step of one command does to the device.                          *)

\* It leaves the locks alone, is granted one, or opens that of its package as it ends; an
\* object that nothing refers to any more is destroyed.
LockMove(t) ==
    \/ /\ UNCHANGED <<cmd, appLock, held, finished>>
       /\ \/ UNCHANGED pkg
          \/ /\ waiting[t] = "extract"
             /\ \E package \in AppId :
                    /\ cmd[t].verify => package = cmd[t].id
                    /\ pkg' = [pkg EXCEPT ![t] = package]
    \/ /\ waiting[t] = "closeLock"
       /\ appLock' = appLock \cup {pkg[t]} /\ held' = held \cup {t}
       /\ UNCHANGED <<cmd, pkg, finished>>
    \/ /\ ~finished[t] /\ finished' = [finished EXCEPT ![t] = TRUE]
       /\ appLock' = appLock \ {pkg[t]} \/ (SendMayFail /\ UNCHANGED appLock)
       /\ UNCHANGED <<cmd, pkg, held>>
    \/ SendMayFail /\ finished[t] /\ Destroy(t) /\ UNCHANGED appLock

\* It leaves the disk alone, changes its own package or the one of its id, or empties the
\* directories of its app.
DiskMove(t) ==
    \/ UNCHANGED disk
    \/ /\ cmd[t].pwa \/ unpacked[t] \/ waiting[t] = "ipkInstall"
       /\ ~finished[t]
       /\ \E s : PutOnDisk(PlaceOf(t), s)
    \/ waiting[t] = "ipkRemove" /\ \E s : PutOnDisk(RemovedPlace(t), s)
    \/ Live(t) /\ RemoveAppDirs(t)

\* Each step of a command makes one of these moves.
LEMMA StepMovesDevice ==
    ASSUME IInv, ConstantsAssumption, NEW t \in Task, Step(t)
    PROVE  UNCHANGED <<cmd, orphans, crashes>> /\ LockMove(t) /\ DiskMove(t)
<1>1. CASE StartUnpackagedInstall(t)
  <2>1. cmd[t].pwa /\ UNCHANGED <<cmd, pkg, finished, held, orphans, appLock, crashes>>
    BY <1>1 DEF StartUnpackagedInstall
  <2>2. UNCHANGED disk \/ \E s : PutOnDisk(PlaceOf(t), s)
    BY <1>1 DEF StartUnpackagedInstall
  <2>3. ~finished[t]
    BY StepContext
  <2> QED BY <2>1, <2>2, <2>3 DEF LockMove, DiskMove
<1>2. CASE StartDataRemove(t)
  <2>1. UNCHANGED <<cmd, pkg, finished, held>> /\ (RemoveAppDirs(t) \/ UNCHANGED envVars)
    BY <1>2 DEF StartDataRemove
  <2>2. Live(t)
    BY StepContext DEF Live
  <2>3. UNCHANGED <<orphans, appLock, crashes>>
    BY <2>1 DEF RemoveAppDirs, envVars
  <2> QED BY <2>1, <2>2, <2>3 DEF LockMove, DiskMove, envVars
<1>3. CASE ~StartUnpackagedInstall(t) /\ ~StartDataRemove(t)
  <2>1. UNCHANGED <<cmd, pkg, finished, held, envVars>>
    BY <1>3 DEF Step, StartIpkParse, StartGetIpkInfo, StartAppClose, StartIpkInstall,
                StartServiceInstall, StartInstallSmack, StartRemove, StartRemoveJail,
                StartRemoveSmack, StartServiceUninstall, StartIpkRemove
  <2> QED BY <2>1 DEF LockMove, DiskMove, envVars
<1> QED BY <1>1, <1>2, <1>3

\* No command is given up while it waits for the database.
LEMMA DataRemovedForLive ==
    ASSUME IInv, StageInv, NEW t \in Task, OnDataRemoved(t)
    PROVE  Live(t)
<1>1. cmd[t] # NoCommand /\ waiting[t] = "dataRemove"
  BY DEF OnDataRemoved, Receives, IInv, EntriesOK
<1>2. ~finished[t]
  BY <1>1 DEF StageInv, StageOK, InStage, LateWaits
<1> QED BY <1>1, <1>2 DEF Live

LEMMA CallbackMovesDevice ==
    ASSUME IInv, StageInv, NEW t \in Task, Child(t) \/ Reply(t)
    PROVE  UNCHANGED <<cmd, orphans, crashes>> /\ LockMove(t) /\ DiskMove(t)
<1> USE DEF LockMove, DiskMove, Receives, envVars
<1>1. CASE OnPackageExtracted(t)
  BY <1>1 DEF OnPackageExtracted
<1>2. CASE OnIpkInstalled(t)
  <2>1. cmd[t] # NoCommand /\ waiting[t] = "ipkInstall"
    BY <1>2 DEF OnIpkInstalled, IInv, EntriesOK
  <2>2. ~finished[t]
    BY <2>1 DEF StageInv, StageOK, InStage, LateWaits
  <2>3. UNCHANGED disk \/ \E s : PutOnDisk(PlaceOf(t), s)
    BY <1>2 DEF OnIpkInstalled, NothingDone, HalfDone
  <2>4. UNCHANGED <<cmd, pkg, finished, held, orphans, appLock, crashes>>
    BY <1>2 DEF OnIpkInstalled
  <2> QED BY <2>1, <2>2, <2>3, <2>4
<1>3. CASE OnIpkRemoved(t)
  <2>1. UNCHANGED disk \/ \E s : PutOnDisk(RemovedPlace(t), s)
    BY <1>3 DEF OnIpkRemoved, NothingDone, HalfDone, PackageRemoved, PackageUnknown
  <2>2. waiting[t] = "ipkRemove" /\ UNCHANGED <<cmd, pkg, finished, held, orphans, appLock, crashes>>
    BY <1>3 DEF OnIpkRemoved
  <2> QED BY <2>1, <2>2
<1>4. CASE OnCloseInfo(t) \/ OnCloseLock(t) \/ OnAppClosed(t)
  BY <1>4 DEF OnCloseInfo, OnCloseLock, OnAppClosed, CloseFails
<1>5. CASE InstallProgress(t) \/ OnRemoveJail(t) \/ OnAppInfo(t) \/ OnServiceInstalled(t)
           \/ OnServiceUninstalled(t)
  BY <1>5 DEF InstallProgress, OnRemoveJail, OnAppInfo, OnServiceInstalled, OnServiceUninstalled
<1>6. CASE OnDataRemoved(t)
  <2>1. Live(t)
    BY <1>6, DataRemovedForLive
  <2>2. RemoveAppDirs(t) /\ UNCHANGED <<cmd, pkg, finished, held, orphans, appLock, crashes>>
    BY <1>6 DEF OnDataRemoved, RemoveAppDirs
  <2> QED BY <2>1, <2>2
<1> QED BY <1>1, <1>2, <1>3, <1>4, <1>5, <1>6 DEF Child, Exit, Reply

LEMMA UnwindMovesDevice ==
    ASSUME IInv, NEW t \in Task, Unwind(t)
    PROVE  UNCHANGED <<orphans, crashes>> /\ LockMove(t) /\ DiskMove(t)
<1> USE DEF LockMove, DiskMove, envVars, taskVars
<1>1. CASE FinishTask(t)
  BY <1>1 DEF FinishTask, Finishing, NeedsRollback, PackageOf
<1>2. CASE ProceedToStage(t) \/ ProceedToEnd(t) \/ FinishAgain(t) \/ ReportServiceFailure(t)
  BY <1>2 DEF ProceedToStage, ProceedToEnd, FinishAgain, ReportServiceFailure
<1>3. CASE ProceedFinished(t)
  <2>1. SendMayFail
    BY <1>3 DEF ProceedFinished, IInv, Orderly
  <2>2. finished[t] /\ UNCHANGED envVars /\ (Destroy(t) \/ UNCHANGED <<cmd, taskVars>>)
    BY <1>3 DEF ProceedFinished
  <2> QED BY <2>1, <2>2
<1> QED BY <1>1, <1>2, <1>3 DEF Unwind

\* Clients and the deferred calls do not touch the device.
LEMMA LoopSparesDevice ==
    ASSUME Client \/ Deferred
    PROVE  UNCHANGED envVars
<1>1. \A t, c, q : CreateTask(t, c, q) => UNCHANGED envVars
  BY DEF CreateTask
<1>2. CASE Client
  <2>1. \A a \in AppId, v, w \in BOOLEAN : Install(a, v, w) => UNCHANGED envVars
    BY <1>1 DEF Install
  <2>2. \A a \in AppId, v \in BOOLEAN : Remove(a, v) => UNCHANGED envVars
    BY <1>1 DEF Remove
  <2> QED BY <1>2, <2>1, <2>2 DEF Client
<1>3. CASE Deferred
  <2>1. Rollback => UNCHANGED envVars
    BY <1>1 DEF Rollback
  <2> QED BY <1>3, <2>1 DEF Deferred, DeferredProceed, DeferredServiceFailed, DeferredJailFailed, ReleaseTask
<1> QED BY <1>2, <1>3

---------------------------------------------------------------------------
(* Privileged packages.                                                    *)

\* No dev command writes to, or has an opkg child for, a privileged package.
LEMMA PlacesOfDevCommands ==
    ASSUME IInv, StageInv, NEW t \in Task, NEW p \in Privileged
    PROVE  /\ cmd[t].pwa \/ unpacked[t] \/ waiting[t] = "ipkInstall" => PlaceOf(t) # <<FALSE, p>>
           /\ waiting[t] = "ipkRemove" => RemovedPlace(t) # <<FALSE, p>>
<1>1. CASE cmd[t] = NoCommand
  <2>1. ~cmd[t].pwa
    BY <1>1 DEF NoCommand
  <2>2. ~unpacked[t]
    BY <1>1 DEF StageInv, StageOK, Blank
  <2>3. waiting[t] = "none"
    BY <1>1 DEF IInv, EntriesOK
  <2> QED BY <2>1, <2>2, <2>3
<1>2. CASE cmd[t] # NoCommand
  <2>1. InStage(t) /\ Packaged(t) /\ SparesPrivileged(t) /\ cmd[t] \in Command
    BY <1>2 DEF StageInv, StageOK, IInv, TypeOK
  <2>2. cmd[t].verify \in BOOLEAN /\ cmd[t].pwa \in BOOLEAN
    BY <2>1 DEF Command
  <2>3. waiting[t] = "ipkRemove" => Configured(t, "IpkRemoveNeeded")
    BY <2>1 DEF InStage, WaitStage
  <2>4. Configured(t, "IpkRemoveNeeded") => cmd[t].name = "RemoveTask"
    BY <2>1 DEF Configured, Stages, InstallStages, Command
  <2>5. cmd[t].pwa \/ unpacked[t] \/ waiting[t] = "ipkInstall" => PlaceOf(t) # <<FALSE, p>>
    BY <2>1, <2>2 DEF PlaceOf, SparesPrivileged
  <2>6. waiting[t] = "ipkRemove" => RemovedPlace(t) # <<FALSE, p>>
    BY <2>1, <2>2, <2>3, <2>4 DEF RemovedPlace, Packaged, SparesPrivileged
  <2> QED BY <2>5, <2>6
<1> QED BY <1>1, <1>2

LEMMA NextKeepsPrivilegedInv ==
    ASSUME IInv, StageInv, PrivilegedInv, ConstantsAssumption, [Next]_vars
    PROVE  PrivilegedInv'
<1> SUFFICES ASSUME NEW p \in Privileged
             PROVE  disk'[<<FALSE, p>>] = "absent" /\ <<FALSE, p>> \notin orphans'
  BY DEF PrivilegedInv
<1>a. /\ disk[<<FALSE, p>>] = "absent" /\ <<FALSE, p>> \notin orphans
      /\ disk \in [Place -> {"absent", "package", "copy", "partial"}] /\ <<FALSE, p>> \in Place
  BY DEF PrivilegedInv, IInv, TypeOK, Place, ConstantsAssumption
<1>1. CASE Client \/ Deferred
  BY <1>1, <1>a, LoopSparesDevice DEF envVars
<1>2. ASSUME NEW t \in Task, Unwind(t) \/ Step(t) \/ Child(t) \/ Reply(t)
      PROVE  disk'[<<FALSE, p>>] = "absent" /\ <<FALSE, p>> \notin orphans'
  <2>1. UNCHANGED orphans /\ DiskMove(t)
    BY <1>2, StepMovesDevice, CallbackMovesDevice, UnwindMovesDevice
  <2>2. /\ cmd[t].pwa \/ unpacked[t] \/ waiting[t] = "ipkInstall" => PlaceOf(t) # <<FALSE, p>>
        /\ waiting[t] = "ipkRemove" => RemovedPlace(t) # <<FALSE, p>>
    BY PlacesOfDevCommands
  <2>3. ASSUME NEW other, other # <<FALSE, p>>, NEW s, PutOnDisk(other, s)
        PROVE  disk'[<<FALSE, p>>] = "absent"
    BY <1>a, <2>3 DEF PutOnDisk
  <2>4. CASE RemoveAppDirs(t)
    BY <1>a, <2>4 DEF RemoveAppDirs
  <2>5. disk'[<<FALSE, p>>] = "absent"
    BY <1>a, <2>1, <2>2, <2>3, <2>4 DEF DiskMove
  <2> QED BY <1>a, <2>1, <2>5
<1>3. CASE Crash
  <2>1. /\ UNCHANGED disk
        /\ \A q \in orphans' :
               \/ q \in orphans
               \/ \E t \in Task : waiting[t] = "ipkInstall" /\ q = PlaceOf(t)
               \/ \E t \in Task : waiting[t] = "ipkRemove" /\ q = RemovedPlace(t)
    BY <1>3 DEF Crash
  <2>2. <<FALSE, p>> \notin orphans'
    <3> SUFFICES ASSUME <<FALSE, p>> \in orphans' PROVE FALSE
      OBVIOUS
    <3>1. \/ \E t \in Task : waiting[t] = "ipkInstall" /\ <<FALSE, p>> = PlaceOf(t)
          \/ \E t \in Task : waiting[t] = "ipkRemove" /\ <<FALSE, p>> = RemovedPlace(t)
      BY <1>a, <2>1
    <3>2. CASE \E t \in Task : waiting[t] = "ipkInstall" /\ <<FALSE, p>> = PlaceOf(t)
      <4>1. PICK t \in Task : waiting[t] = "ipkInstall" /\ <<FALSE, p>> = PlaceOf(t)
        BY <3>2
      <4> QED BY <4>1, PlacesOfDevCommands
    <3>3. CASE \E t \in Task : waiting[t] = "ipkRemove" /\ <<FALSE, p>> = RemovedPlace(t)
      <4>1. PICK t \in Task : waiting[t] = "ipkRemove" /\ <<FALSE, p>> = RemovedPlace(t)
        BY <3>3
      <4> QED BY <4>1, PlacesOfDevCommands
    <3> QED BY <3>1, <3>2, <3>3
  <2> QED BY <1>a, <2>1, <2>2
<1>4. CASE \E q \in Place : OrphanExits(q)
  <2>1. PICK q \in Place : OrphanExits(q)
    BY <1>4
  <2>2. q # <<FALSE, p>> /\ orphans' = orphans \ {q}
    BY <1>a, <2>1 DEF OrphanExits
  <2>3. UNCHANGED disk \/ \E s : disk' = [disk EXCEPT ![q] = s]
    BY <2>1 DEF OrphanExits, NothingDone, HalfDone, PackageRemoved, PutOnDisk
  <2> QED BY <1>a, <2>2, <2>3
<1>5. CASE UNCHANGED vars
  BY <1>5, <1>a DEF vars, envVars
<1> QED BY <1>1, <1>2, <1>3, <1>4, <1>5 DEF Next

(***************************************************************************)
(* A dev command neither locks, installs nor removes a package with a      *)
(* privileged name, whatever id it was asked for, what commands run beside *)
(* it, what calls cannot be sent and where the daemon crashes.             *)
(***************************************************************************)
THEOREM PrivilegedAppsAreSafe == Spec => []PrivilegedUntouched
<1> USE ConstantsAssumption
<1>1. Init => PrivilegedInv
  BY DEF Init, PrivilegedInv, Place
<1>2. IInv /\ StageInv /\ PrivilegedInv /\ [Next]_vars => PrivilegedInv'
  BY NextKeepsPrivilegedInv
<1>3. IInv /\ StageInv /\ PrivilegedInv => PrivilegedUntouched
  <2> SUFFICES ASSUME IInv, StageInv, PrivilegedInv, NEW p \in Privileged, NEW t \in held, pkg[t] = p
               PROVE  cmd[t].verify
    BY DEF PrivilegedInv, PrivilegedUntouched
  <2>1. t \in Task
    BY DEF IInv, TypeOK
  <2>2. cmd[t] # NoCommand
    BY <2>1 DEF StageInv, StageOK, Blank
  <2> QED BY <2>1, <2>2 DEF StageInv, StageOK, SparesPrivileged
<1>4. Spec => [](IInv /\ StageInv)
  BY StagesHold
<1> QED BY <1>1, <1>2, <1>3, <1>4, PTL DEF Spec

---------------------------------------------------------------------------
(* What clients and the deferred calls do to a command.                    *)

\* A command goes on with the status it had or one that its call sets, or it has ended,
\* or it is new.
LoopMove(t) ==
    /\ waiting'[t] = waiting[t]
    /\ \/ /\ Live(t)
          /\ cmd'[t] = cmd[t] /\ finished'[t] = finished[t] /\ pkg'[t] = pkg[t]
          /\ t \in held' <=> t \in held
          /\ unpacked'[t] = unpacked[t]
          /\ step'[t] \in {step[t], "ErrorInstall", "RemoveJailComplete"}
       \/ /\ ~Live(t)
          /\ cmd[t] # NoCommand => cmd'[t] \in {cmd[t], NoCommand}
          /\ Live(t)' => t \notin held' /\ step'[t] \in {"Unknown", "GetIpkInfoComplete"}

LEMMA CreateMoves ==
    ASSUME IInv, StageInv, NEW u \in FreeTasks, NEW c, NEW q, CreateTask(u, c, q), NEW t \in Task
    PROVE  LoopMove(t)
<1>1. cmd[u] = NoCommand /\ u \in Task
  BY DEF FreeTasks
<1>2. u \notin held /\ step \in [Task -> TaskStep]
  BY <1>1 DEF StageInv, StageOK, Blank, IInv, TypeOK
<1>3. CASE t = u
  BY <1>1, <1>2, <1>3 DEF CreateTask, LoopMove, Live
<1>4. CASE t # u
  BY <1>1, <1>2, <1>4 DEF CreateTask, LoopMove, Live, IInv, TypeOK
<1> QED BY <1>3, <1>4

LEMMA LoopMoves ==
    ASSUME IInv, StageInv, ConstantsAssumption, Client \/ Deferred, NEW t \in Task
    PROVE  LoopMove(t)
<1>1. CASE Client
  <2>1. ASSUME NEW a \in AppId, NEW v \in BOOLEAN, NEW w \in BOOLEAN, Install(a, v, w)
        PROVE  LoopMove(t)
    BY <2>1, CreateMoves DEF Install
  <2>2. ASSUME NEW a \in AppId, NEW v \in BOOLEAN, Remove(a, v)
        PROVE  LoopMove(t)
    BY <2>2, CreateMoves DEF Remove
  <2> QED BY <1>1, <2>1, <2>2 DEF Client
<1>2. CASE Rollback
  <2>1. CASE UNCHANGED <<cmd, taskVars, waiting>>
    BY <2>1 DEF LoopMove, taskVars, Live
  <2>2. CASE ~UNCHANGED <<cmd, taskVars, waiting>>
    BY <1>2, <2>2, CreateMoves DEF Rollback
  <2> QED BY <2>1, <2>2
<1>3. CASE ReleaseTask
  <2>1. PICK u \in Task : u = mapTask[Head(deferred).id]
    BY <1>3, ReleaseContext
  <2>2. finished[u] /\ UNCHANGED waiting /\ (Destroy(u) \/ UNCHANGED <<cmd, taskVars>>)
    BY <1>3, <2>1, ReleaseContext
  <2>3. CASE Destroy(u)
    BY <2>2, <2>3 DEF Destroy, LoopMove, Live, IInv, TypeOK
  <2>4. CASE UNCHANGED <<cmd, taskVars>>
    BY <2>2, <2>4 DEF LoopMove, Live, taskVars
  <2> QED BY <2>2, <2>3, <2>4
<1>4. CASE DeferredProceed \/ DeferredServiceFailed \/ DeferredJailFailed
  <2>1. /\ UNCHANGED <<cmd, pkg, finished, unpacked, held, waiting>>
        /\ step'[t] \in {step[t], "ErrorInstall", "RemoveJailComplete"}
    BY <1>4 DEF DeferredProceed, DeferredServiceFailed, DeferredJailFailed, SetError, SetStep, taskVars,
                IInv, TypeOK
  <2>2. Live(t) => Live(t)'
    BY <2>1 DEF Live
  <2> QED BY <2>1, <2>2 DEF LoopMove, Live
<1> QED BY <1>1, <1>2, <1>3, <1>4 DEF Deferred

---------------------------------------------------------------------------
(* The locks in applicationManager.                                        *)

\* A command that waits for its package to be extracted has none, one that asks for a
\* lock has.
LEMMA PackageWhileWaiting ==
    ASSUME IInv, StageInv, ConstantsAssumption, NEW t \in Task
    PROVE  /\ waiting[t] = "extract" => pkg[t] = NoApp /\ t \notin held
           /\ waiting[t] = "closeLock" => pkg[t] # NoApp /\ (~SendMayFail => Live(t))
<1> SUFFICES ASSUME waiting[t] \in {"extract", "closeLock"}
             PROVE  /\ waiting[t] = "extract" => pkg[t] = NoApp /\ t \notin held
                    /\ waiting[t] = "closeLock" => pkg[t] # NoApp /\ (~SendMayFail => Live(t))
  OBVIOUS
<1>1. cmd[t] # NoCommand
  BY DEF IInv, EntriesOK
<1>2. InStage(t) /\ Packaged(t) /\ cmd[t].id # NoApp /\ cmd[t].name \in {"InstallTask", "RemoveTask"}
  BY <1>1 DEF StageInv, StageOK, IInv, TypeOK, Command, ConstantsAssumption
<1>3. CASE waiting[t] = "extract"
  <2>1. step[t] = "IpkParseNeeded" /\ Configured(t, "IpkParseNeeded")
    BY <1>2, <1>3 DEF InStage, WaitStage, WaitSteps, LateWaits
  <2>2. cmd[t].name = "InstallTask"
    BY <1>2, <2>1 DEF Configured, Stages, RemoveStages
  <2> QED BY <1>2, <1>3, <2>1, <2>2 DEF Packaged, BeforeParse
<1>4. CASE waiting[t] = "closeLock"
  <2>1. ~SendMayFail => Live(t)
    BY <1>1, <1>4 DEF IInv, Orderly, Live
  <2> QED BY <1>2, <1>4, <2>1 DEF Packaged
<1> QED BY <1>3, <1>4

\* Only a crash is counted as one.
LEMMA CrashesCounted ==
    ASSUME IInv, StageInv, ConstantsAssumption, [Next]_vars
    PROVE  IF Crash THEN crashes' # 0 ELSE UNCHANGED crashes
<1>1. CASE Crash
  BY <1>1 DEF Crash, IInv, TypeOK
<1>2. CASE Client \/ Deferred
  BY <1>1, <1>2, LoopSparesDevice DEF envVars
<1>3. ASSUME NEW t \in Task, Unwind(t) \/ Step(t) \/ Child(t) \/ Reply(t)
      PROVE  UNCHANGED crashes
  BY <1>3, StepMovesDevice, CallbackMovesDevice, UnwindMovesDevice
<1>4. CASE UNCHANGED vars \/ \E p \in Place : OrphanExits(p)
  BY <1>1, <1>4 DEF vars, envVars, OrphanExits
<1> QED BY <1>1, <1>2, <1>3, <1>4 DEF Next

LEMMA NextKeepsLeftLockedInv ==
    ASSUME IInv, StageInv, LeftLockedInv, ~SendMayFail, ConstantsAssumption, [Next]_vars
    PROVE  LeftLockedInv'
<1> SUFFICES ASSUME crashes' = 0
             PROVE  NoAppLeftLocked' /\ NoApp \notin appLock'
  BY DEF LeftLockedInv
<1>0. ~Crash /\ NoAppLeftLocked /\ NoApp \notin appLock
  BY CrashesCounted DEF LeftLockedInv
<1>1. CASE Client \/ Deferred
  <2>1. UNCHANGED appLock
    BY <1>1, LoopSparesDevice DEF envVars
  <2>2. ASSUME NEW t \in Task, Live(t) PROVE Live(t)' /\ pkg'[t] = pkg[t]
    BY <1>1, <2>2, LoopMoves DEF LoopMove, Live
  <2> QED BY <1>0, <2>1, <2>2 DEF NoAppLeftLocked
<1>2. ASSUME NEW u \in Task, Unwind(u) \/ Step(u) \/ Child(u) \/ Reply(u)
      PROVE  NoAppLeftLocked' /\ NoApp \notin appLock'
  <2>1. UNCHANGED cmd /\ LockMove(u)
    BY <1>2, StepMovesDevice, CallbackMovesDevice, UnwindMovesDevice DEF LockMove
  <2>2. /\ waiting[u] = "extract" => pkg[u] = NoApp
        /\ waiting[u] = "closeLock" => Live(u) /\ pkg[u] # NoApp
    BY PackageWhileWaiting
  <2>3. NoApp \notin appLock'
    BY <1>0, <2>1, <2>2 DEF LockMove
  <2>4. ASSUME NEW p \in appLock' PROVE \E t \in Task : Live(t)' /\ pkg'[t] = p
    <3>1. CASE p \in appLock
      <4>1. PICK t \in Task : Live(t) /\ pkg[t] = p
        BY <1>0, <3>1 DEF NoAppLeftLocked
      <4>2. p # NoApp
        BY <1>0, <3>1
      <4>3. Live(t)' /\ pkg'[t] = p
        BY <2>1, <2>2, <2>4, <4>1, <4>2 DEF LockMove, Live, IInv, TypeOK
      <4> QED BY <4>3
    <3>2. CASE p \notin appLock
      <4>1. Live(u)' /\ pkg'[u] = p
        BY <2>1, <2>2, <2>4, <3>2 DEF LockMove, Live
      <4> QED BY <4>1
    <3> QED BY <3>1, <3>2
  <2> QED BY <2>3, <2>4 DEF NoAppLeftLocked
<1>3. CASE UNCHANGED vars \/ \E p \in Place : OrphanExits(p)
  <2>1. UNCHANGED <<cmd, pkg, finished, appLock>>
    BY <1>3 DEF vars, OrphanExits, taskVars, envVars
  <2> QED BY <1>0, <2>1 DEF NoAppLeftLocked, Live
<1> QED BY <1>0, <1>1, <1>2, <1>3 DEF Next

(***************************************************************************)
(* Until the daemon crashes, no package stays locked in applicationManager *)
(* without a running command for it: whatever other commands lock and      *)
(* unlock, dev commands for one package among them.                        *)
(***************************************************************************)
THEOREM AppsAreUnlocked == ~SendMayFail => (Spec => [](crashes = 0 => NoAppLeftLocked))
<1> USE ConstantsAssumption
<1> SUFFICES ASSUME ~SendMayFail PROVE Spec => [](crashes = 0 => NoAppLeftLocked)
  OBVIOUS
<1>1. Init => LeftLockedInv
  BY DEF Init, LeftLockedInv, NoAppLeftLocked
<1>2. IInv /\ StageInv /\ LeftLockedInv /\ [Next]_vars => LeftLockedInv'
  BY NextKeepsLeftLockedInv
<1>3. LeftLockedInv => (crashes = 0 => NoAppLeftLocked)
  BY DEF LeftLockedInv
<1>4. Spec => [](IInv /\ StageInv)
  BY StagesHold
<1> QED BY <1>1, <1>2, <1>3, <1>4, PTL DEF Spec

---------------------------------------------------------------------------
(* The lock of a verified command.                                         *)

LEMMA NextKeepsAllVerified ==
    ASSUME IInv, StageInv, ConstantsAssumption, DevIds = {}, AllVerified, [Next]_vars
    PROVE  AllVerified'
<1>a. deferred \in Seq(DeferredCall) /\ cmd \in [Task -> Command \cup {NoCommand}]
  BY DEF IInv, TypeOK
<1>1. ASSUME NEW t \in FreeTasks, NEW c, NEW q \in Seq(DeferredCall), CreateTask(t, c, q), c.verify,
             q = deferred \/ (deferred # <<>> /\ q = Tail(deferred))
      PROVE  AllVerified'
  <2>1. t \in Task /\ deferred' = Append(q, TaskCall("proceed", t)) /\ cmd' = [cmd EXCEPT ![t] = c]
    BY <1>1 DEF CreateTask, FreeTasks
  <2>2. \A k \in DOMAIN deferred' :
            \/ \E l \in DOMAIN deferred : deferred'[k] = deferred[l]
            \/ deferred'[k].task = t /\ deferred'[k].call = "proceed"
    BY <1>1, <1>a, <2>1, CallsWithFirst
  <2> QED BY <1>1, <1>a, <2>1, <2>2 DEF AllVerified
<1>2. CASE Client
  <2>1. ASSUME NEW a \in AppId, NEW v \in BOOLEAN, NEW w \in BOOLEAN, Install(a, v, w) PROVE AllVerified'
    BY <1>1, <1>a, <2>1 DEF Install
  <2>2. ASSUME NEW a \in AppId, NEW v \in BOOLEAN, Remove(a, v) PROVE AllVerified'
    BY <1>1, <1>a, <2>2 DEF Remove
  <2> QED BY <1>2, <2>1, <2>2 DEF Client
<1>3. ASSUME \/ UNCHANGED deferred
             \/ deferred # <<>> /\ deferred' = Tail(deferred),
             \A t \in Task : cmd'[t] \in {cmd[t], NoCommand}
      PROVE  AllVerified'
  <2>1. \A k \in DOMAIN deferred' : \E l \in DOMAIN deferred : deferred'[k] = deferred[l]
    BY <1>3, <1>a, CallsLeft
  <2> QED BY <1>3, <2>1 DEF AllVerified
<1>4. CASE Rollback
  <2>1. deferred # <<>> /\ Head(deferred).call = "rollback" /\ Tail(deferred) \in Seq(DeferredCall)
    BY <1>4, <1>a DEF Rollback
  <2>2. Head(deferred).verify
    <3>1. 1 \in DOMAIN deferred /\ Head(deferred) = deferred[1]
      BY <1>a, <2>1
    <3> QED BY <2>1, <3>1 DEF AllVerified
  <2>3. CASE Known(Head(deferred).id)
    BY <1>3, <1>4, <2>1, <2>3 DEF Rollback
  <2>4. CASE ~Known(Head(deferred).id)
    <3> DEFINE d == Head(deferred)
               c == [name |-> "RemoveTask", id |-> d.id, verify |-> d.verify, pwa |-> FALSE,
                     cleans |-> d.unpacked]
    <3>1. PICK t \in FreeTasks : CreateTask(t, c, Tail(deferred))
      BY <1>4, <2>4 DEF Rollback
    <3>2. c.verify
      BY <2>2
    <3> HIDE DEF c
    <3> QED BY <1>1, <2>1, <3>1, <3>2
  <2> QED BY <2>3, <2>4
<1>5. CASE ReleaseTask
  <2>1. PICK u \in Task : u = mapTask[Head(deferred).id]
    BY <1>5, ReleaseContext
  <2>2. deferred # <<>> /\ deferred' = Tail(deferred) /\ (Destroy(u) \/ UNCHANGED cmd)
    BY <1>5, <2>1, ReleaseContext
  <2>3. \A t \in Task : cmd'[t] \in {cmd[t], NoCommand}
    BY <1>a, <2>2 DEF Destroy
  <2> QED BY <1>3, <2>2, <2>3
<1>6. CASE DeferredProceed \/ DeferredServiceFailed \/ DeferredJailFailed
  BY <1>3, <1>6 DEF DeferredProceed, DeferredServiceFailed, DeferredJailFailed
<1>7. ASSUME NEW t \in Task, Step(t) \/ Child(t) \/ Reply(t) PROVE AllVerified'
  <2>1. UNCHANGED cmd
    BY <1>7, StepMovesDevice, CallbackMovesDevice
  <2>2. UNCHANGED deferred \/ \E c \in TaskCalls : deferred' = Append(deferred, TaskCall(c, t))
    BY <1>7, StepMoves, ChildMoves, ReplyMoves
       DEF Move, Dispatched, StillWaits, Suspended, GoesOnLater, GoesOn, GoesOnThenFails, Fails
  <2>3. CASE UNCHANGED deferred
    BY <1>3, <2>1, <2>3
  <2>4. ASSUME NEW c \in TaskCalls, deferred' = Append(deferred, TaskCall(c, t)) PROVE AllVerified'
    <3>1. \A k \in DOMAIN deferred' :
              (\E l \in DOMAIN deferred : deferred'[k] = deferred[l]) \/ deferred'[k].call = c
      BY <1>a, <2>4, LastCall
    <3> QED BY <2>1, <2>4, <3>1 DEF AllVerified, TaskCalls
  <2> QED BY <2>2, <2>3, <2>4
<1>8. ASSUME NEW t \in Task, Unwind(t) PROVE AllVerified'
  <2>1. \A u \in Task : cmd'[u] \in {cmd[u], NoCommand}
    BY <1>8, <1>a, UnwindMovesDevice DEF LockMove, Destroy
  <2>2. CASE FinishTask(t)
    <3>1. cmd[t] # NoCommand /\ deferred' = deferred \o FinishCalls(t)
      BY <2>2 DEF FinishTask, Finishing, IInv, FramesOK, ConstantsAssumption
    <3>2. \A k \in DOMAIN deferred' :
              \/ \E l \in DOMAIN deferred : deferred'[k] = deferred[l]
              \/ deferred'[k].call = "rollback" => deferred'[k].verify = cmd[t].verify
      BY <1>a, <3>1, FinishCallsAreOthers
    <3> QED BY <2>1, <3>1, <3>2 DEF AllVerified
  <2>3. CASE ~FinishTask(t)
    <3>1. UNCHANGED deferred
      BY <1>8, <2>3 DEF Unwind, ProceedToStage, ProceedToEnd, ProceedFinished, FinishAgain, ReportServiceFailure
    <3> QED BY <1>3, <2>1, <3>1
  <2> QED BY <2>2, <2>3
<1>9. CASE Crash
  BY <1>9 DEF Crash, AllVerified
<1>10. CASE UNCHANGED vars \/ \E p \in Place : OrphanExits(p)
  BY <1>3, <1>10 DEF vars, OrphanExits
<1> QED BY <1>2, <1>4, <1>5, <1>6, <1>7, <1>8, <1>9, <1>10 DEF Next, Deferred

LEMMA NextKeepsLockKept ==
    ASSUME IInv, StageInv, AllVerified, LockKept, ConstantsAssumption, [Next]_vars
    PROVE  LockKept'
<1>a. ASSUME NEW t \in Task, cmd[t] # NoCommand
      PROVE  pkg[t] \in {NoApp, cmd[t].id} /\ (t \in held => pkg[t] = cmd[t].id /\ pkg[t] # NoApp)
  BY <1>a DEF AllVerified, StageInv, StageOK, Packaged
<1>1. CASE Client \/ Deferred
  <2>1. UNCHANGED appLock /\ \A t \in Task : LoopMove(t)
    BY <1>1, LoopSparesDevice, LoopMoves DEF envVars
  <2>2. ASSUME NEW t \in held', Live(t)' PROVE pkg'[t] \in appLock'
    <3>1. t \in Task
      BY <1>1, <2>2, LoopStepType, StepTablesAssumption DEF IInv, TypeOK
    <3> QED BY <2>1, <2>2, <3>1 DEF LoopMove, LockKept
  <2> QED BY <2>2 DEF LockKept
<1>2. ASSUME NEW u \in Task, Unwind(u) \/ Step(u) \/ Child(u) \/ Reply(u)
      PROVE  LockKept'
  <2>1. LockMove(u)
    BY <1>2, StepMovesDevice, CallbackMovesDevice, UnwindMovesDevice
  <2>2. waiting[u] = "extract" => u \notin held
    BY PackageWhileWaiting
  <2>3. ASSUME NEW t \in held', Live(t)' PROVE pkg'[t] \in appLock'
    <3>1. /\ t \in Task /\ Live(t) /\ cmd'[t] = cmd[t]
          /\ t # u => t \in held /\ pkg'[t] = pkg[t]
      BY <2>1, <2>3 DEF LockMove, Destroy, Live, IInv, TypeOK
    <3>2. CASE t # u
      <4>1. pkg[t] \in appLock /\ pkg[t] = cmd[t].id /\ pkg[t] # NoApp
        BY <1>a, <3>1, <3>2 DEF LockKept, Live
      <4>2. ASSUME ~finished[u] PROVE pkg[u] # pkg[t]
        <5>1. CASE cmd[u] # NoCommand
          <6>1. cmd[t].id # cmd[u].id
            BY <3>1, <3>2, <4>2, <5>1 DEF IInv, EntriesOK, Stray, Live
          <6> QED BY <1>a, <4>1, <5>1, <6>1
        <5>2. CASE cmd[u] = NoCommand
          BY <4>1, <5>2 DEF StageInv, StageOK, Blank
        <5> QED BY <5>1, <5>2
      <4> QED BY <2>1, <3>1, <3>2, <4>1, <4>2 DEF LockMove
    <3>3. CASE t = u
      <4>1. \/ UNCHANGED <<appLock, held>> /\ pkg'[u] = pkg[u]
            \/ appLock' = appLock \cup {pkg[u]} /\ UNCHANGED pkg
        BY <2>1, <2>2, <2>3, <3>1, <3>3 DEF LockMove, Destroy, Live, IInv, TypeOK
      <4> QED BY <2>3, <3>1, <3>3, <4>1 DEF LockKept
    <3> QED BY <3>2, <3>3
  <2> QED BY <2>3 DEF LockKept
<1>3. CASE Crash
  BY <1>3 DEF Crash, LockKept
<1>4. CASE UNCHANGED vars \/ \E p \in Place : OrphanExits(p)
  <2>1. UNCHANGED <<cmd, pkg, finished, held, appLock>>
    BY <1>4 DEF vars, OrphanExits, taskVars, envVars
  <2> QED BY <2>1 DEF LockKept, Live
<1> QED BY <1>1, <1>2, <1>3, <1>4 DEF Next

(***************************************************************************)
(* Where no client uses the dev methods, a command that was granted the    *)
(* lock of its package keeps it until it ends, whatever other commands and *)
(* rollbacks end meanwhile, and whatever calls cannot be sent.             *)
(***************************************************************************)
THEOREM LocksAreKept == DevIds = {} => (Spec => []LockKept)
<1> USE ConstantsAssumption
<1> SUFFICES ASSUME DevIds = {} PROVE Spec => []LockKept
  OBVIOUS
<1>1. Init => LockInv
  BY DEF Init, LockInv, AllVerified, LockKept
<1>2. IInv /\ StageInv /\ LockInv /\ [Next]_vars => LockInv'
  BY NextKeepsAllVerified, NextKeepsLockKept DEF LockInv
<1>3. LockInv => LockKept
  BY DEF LockInv
<1>4. Spec => [](IInv /\ StageInv)
  BY StagesHold
<1> QED BY <1>1, <1>2, <1>3, <1>4, PTL DEF Spec

---------------------------------------------------------------------------
(* What a command that completed has done.                                 *)

\* No command that runs beside another writes to its place in the verified root, and what
\* opkg removes for one that was given up is not what the other has installed.
LEMMA PlacesApart ==
    ASSUME IInv, StageInv, RemovedAlone, ~SendMayFail \/ PwaIds = {}, ConstantsAssumption,
           NEW t \in Task, NEW u \in Task, u # t, Live(t)
    PROVE  /\ (cmd[u].pwa \/ unpacked[u] \/ waiting[u] = "ipkInstall") /\ ~finished[u]
              => PlaceOf(u) # <<TRUE, cmd[t].id>>
           /\ waiting[u] = "ipkRemove" /\ cmd[t].name = "InstallTask" /\ AfterInstall(t)
              => RemovedPlace(u) # <<TRUE, cmd[t].id>>
           /\ Live(u) => <<TRUE, cmd[t].id>> \notin AppDirs(u)
<1>1. cmd[t].id \in AppId /\ cmd[t].id # NoApp
  BY DEF IInv, EntriesOK, Live, ConstantsAssumption
<1>2. CASE cmd[u] = NoCommand
  <2>1. ~cmd[u].pwa /\ cmd[u].id = NoApp /\ ~Live(u)
    BY <1>2 DEF NoCommand, Live
  <2>2. ~unpacked[u] /\ waiting[u] = "none"
    BY <1>2 DEF StageInv, StageOK, Blank, IInv, EntriesOK
  <2> QED BY <1>1, <2>1, <2>2 DEF RemovedPlace
<1>3. CASE cmd[u] # NoCommand
  <2>1. Packaged(u) /\ cmd[u].verify \in BOOLEAN /\ cmd[u].pwa \in BOOLEAN
    BY <1>3 DEF StageInv, StageOK, IInv, TypeOK, Command
  <2>2. ASSUME ~finished[u] PROVE cmd[u].id # cmd[t].id
    BY <1>3, <2>2 DEF IInv, EntriesOK, Stray, Live
  <2>3. (cmd[u].pwa \/ unpacked[u] \/ waiting[u] = "ipkInstall") /\ ~finished[u]
        => PlaceOf(u) # <<TRUE, cmd[t].id>>
    BY <1>1, <2>1, <2>2 DEF PlaceOf, Packaged
  <2>4. ASSUME waiting[u] = "ipkRemove", cmd[t].name = "InstallTask", AfterInstall(t)
        PROVE  cmd[u].id # cmd[t].id
    <3>1. CASE ~SendMayFail
      BY <1>3, <2>2, <2>4, <3>1 DEF IInv, Orderly
    <3>2. CASE PwaIds = {}
      BY <2>4, <3>2 DEF RemovedAlone
    <3> QED BY <3>1, <3>2
  <2>5. Live(u) => <<TRUE, cmd[t].id>> \notin AppDirs(u)
    BY <2>2 DEF Live, AppDirs
  <2> QED BY <2>3, <2>4, <2>5 DEF RemovedPlace
<1> QED BY <1>2, <1>3

\* What the other commands do leaves it done.
LEMMA OthersLeaveDone ==
    ASSUME IInv, StageInv, RemovedAlone, ~SendMayFail \/ PwaIds = {}, ConstantsAssumption,
           NEW t \in Task, NEW u \in Task, u # t, Done(t), Apart(u), DiskMove(u)
    PROVE  Done(t)'
<1>1. cmd'[t] = cmd[t] /\ step'[t] = step[t] /\ finished'[t] = finished[t] /\ waiting'[t] = waiting[t]
  BY DEF Apart
<1>2. CASE ~(Live(t) /\ cmd[t].verify)
  BY <1>1, <1>2 DEF Done, Live
<1>3. CASE Live(t) /\ cmd[t].verify
  <2> DEFINE place == <<TRUE, cmd[t].id>>
  <2>1. current # t /\ unpacked'[t] = unpacked[t]
    BY DEF Apart
  <2>2. /\ (cmd[u].pwa \/ unpacked[u] \/ waiting[u] = "ipkInstall") /\ ~finished[u] => PlaceOf(u) # place
        /\ waiting[u] = "ipkRemove" /\ cmd[t].name = "InstallTask" /\ AfterInstall(t)
           => RemovedPlace(u) # place
        /\ Live(u) => place \notin AppDirs(u)
    BY <1>3, PlacesApart
  <2>3. disk \in [Place -> {"absent", "package", "copy", "partial"}] /\ place \in Place
    BY <1>3 DEF IInv, TypeOK, EntriesOK, Live, Place
  <2>4. cmd[t].name = "InstallTask" /\ AfterInstall(t) => disk'[place] = disk[place]
    <3>1. ASSUME NEW other, other # place, NEW s, PutOnDisk(other, s)
          PROVE  disk'[place] = disk[place]
      BY <2>3, <3>1 DEF PutOnDisk
    <3>2. ASSUME place \notin AppDirs(u), RemoveAppDirs(u)
          PROVE  disk'[place] = disk[place]
      BY <2>3, <3>2 DEF RemoveAppDirs
    <3> QED BY <2>2, <3>1, <3>2 DEF DiskMove
  <2> HIDE DEF place
  <2>5. place = <<TRUE, cmd[t].id>> /\ place' = place /\ (AfterInstall(t)' <=> AfterInstall(t))
    BY <1>1 DEF place, AfterInstall
  <2>6. (IsRollback(t)' <=> IsRollback(t)) /\ (IsInstalled(place)' <=> disk'[place] \in {"package", "copy"})
    BY <1>1, <2>5 DEF IsRollback, IsInstalled
  <2>7. Live(t)' /\ cmd'[t].verify
    BY <1>1, <1>3 DEF Live
  <2>8. /\ cmd[t].name = "InstallTask" /\ AfterInstall(t) /\ unpacked[t] => IsInstalled(place)
        /\ cmd[t].name = "InstallTask" => step[t] # "RemoveComplete"
        /\ cmd[t].name = "RemoveTask" /\ ~IsRollback(t) => step[t] \notin AfterRemove
        /\ cmd[t].name = "RemoveTask" /\ IsRollback(t) => step[t] # "RemoveComplete"
        /\ cmd[t].name = "RemoveTask" => step[t] # "InstallComplete"
    BY <1>3, <2>1, <2>5 DEF Done
  <2>9. cmd[t].name = "InstallTask" /\ AfterInstall(t)' /\ unpacked'[t] => IsInstalled(place)'
    BY <2>1, <2>4, <2>5, <2>6, <2>8 DEF IsInstalled
  <2> QED BY <1>1, <2>5, <2>6, <2>7, <2>8, <2>9 DEF Done
<1> QED BY <1>2, <1>3

\* Clients' commands and the deferred calls come between callbacks.
LEMMA LoopIsAtRest ==
    ASSUME IInv, Client \/ Deferred
    PROVE  current = NoTask
<1>1. call = "none"
  BY DEF Client, Install, Remove, MayDispatch, AtRest, Deferred, DeferredProceed, DeferredServiceFailed,
         DeferredJailFailed, ReleaseTask, Rollback
<1> QED BY <1>1 DEF IInv, FramesOK

\* So does what clients and the deferred calls do.
LEMMA LoopLeavesDone ==
    ASSUME IInv, StageInv, ConstantsAssumption, Client \/ Deferred, NEW t \in Task, Done(t)
    PROVE  Done(t)'
<1>1. LoopMove(t) /\ UNCHANGED disk
  BY LoopMoves, LoopSparesDevice DEF envVars
<1>2. current # t
  <2>1. current = NoTask
    BY LoopIsAtRest
  <2> QED BY <2>1 DEF ConstantsAssumption
<1>3. CASE Live(t)
  <2>1. /\ cmd'[t] = cmd[t] /\ finished'[t] = finished[t] /\ unpacked'[t] = unpacked[t]
        /\ waiting'[t] = waiting[t]
        /\ step'[t] \in {step[t], "ErrorInstall", "RemoveJailComplete"}
    BY <1>1, <1>3 DEF LoopMove
  <2>2. IsRollback(t)' <=> IsRollback(t)
    BY <2>1 DEF IsRollback
  <2>3. AfterInstall(t)' => AfterInstall(t)
    BY <2>1 DEF AfterInstall
  <2> QED BY <1>1, <1>2, <1>3, <2>1, <2>2, <2>3 DEF Done, Live, AfterRemove, IsInstalled
<1>4. CASE ~Live(t)
  <2>1. Live(t)' => step'[t] \in {"Unknown", "GetIpkInfoComplete"}
    BY <1>1, <1>4 DEF LoopMove
  <2> QED BY <2>1 DEF Done, AfterInstall, AfterRemove
<1> QED BY <1>3, <1>4

\* The statuses that the steps set.
LEMMA StepStatus ==
    ASSUME IInv, ConstantsAssumption, NEW t \in Task, Step(t), ~StartUnpackagedInstall(t),
           ~StartDataRemove(t)
    PROVE  /\ UNCHANGED <<cmd, finished, disk>>
           /\ step'[t] \notin AfterRemove /\ step'[t] # "InstallComplete"
           /\ \/ step'[t] = step[t] /\ step[t] # "IpkInstallComplete" /\ unpacked'[t] = unpacked[t]
              \/ ~AfterInstall(t)'
              \/ /\ step[t] = "ServiceInstallNeeded" /\ step'[t] = "ServiceInstallRequested"
                 /\ unpacked'[t] = unpacked[t]
              \/ /\ step[t] = "InstallSmackNeeded" /\ step'[t] = "InstallSmackComplete"
                 /\ unpacked'[t] = unpacked[t]
<1>0. /\ cmd[t] \in Command /\ cmd[t] # NoCommand /\ ~finished[t] /\ waiting[t] = "none"
      /\ call = "step" /\ current = t
  BY StepContext
<1>a. step \in [Task -> TaskStep] /\ waiting \in [Task -> Waits]
  BY DEF IInv, TypeOK
<1> USE DEF Starting, Sent, Spawn, NotSpawned, SetStep, SetError, Await, ErrorOf
<1>1. UNCHANGED <<cmd, finished, disk>>
  BY DEF Step, StartIpkParse, StartGetIpkInfo, StartAppClose, StartIpkInstall,
         StartServiceInstall, StartInstallSmack, StartRemove, StartRemoveJail,
         StartRemoveSmack, StartServiceUninstall, StartIpkRemove, envVars
<1> USE DEF AfterInstall, AfterRemove
<1>2. CASE StartIpkParse(t) \/ StartGetIpkInfo(t) \/ StartAppClose(t)
  BY <1>0, <1>a, <1>1, <1>2 DEF StartIpkParse, StartGetIpkInfo, StartAppClose
<1>3. CASE StartIpkInstall(t)
  BY <1>0, <1>a, <1>1, <1>3 DEF StartIpkInstall
<1>4. CASE StartServiceInstall(t) \/ StartInstallSmack(t)
  BY <1>0, <1>a, <1>1, <1>4 DEF StartServiceInstall, StartInstallSmack
<1>5. CASE StartRemove(t) \/ StartRemoveJail(t) \/ StartRemoveSmack(t)
  BY <1>0, <1>a, <1>1, <1>5 DEF StartRemove, StartRemoveJail, StartRemoveSmack
<1>6. CASE StartServiceUninstall(t)
  BY <1>0, <1>a, <1>1, <1>6 DEF StartServiceUninstall
<1>7. CASE StartIpkRemove(t)
  BY <1>0, <1>a, <1>1, <1>7 DEF StartIpkRemove
<1> QED BY <1>2, <1>3, <1>4, <1>5, <1>6, <1>7 DEF Step

\* What DataRemoveStep does to its command.
LEMMA DataRemovedStatus ==
    ASSUME IInv, ConstantsAssumption, NEW t \in Task, cmd[t] # NoCommand, ~finished[t],
           SetStep(t, "DataRemoveComplete"), RemoveAppDirs(t), UNCHANGED <<cmd, finished>>
    PROVE  /\ step'[t] = "DataRemoveComplete" /\ ~AfterInstall(t)'
           /\ \A p \in AppDirs(t)' : disk'[p] = "absent"
<1>1. step'[t] = "DataRemoveComplete"
  BY DEF SetStep, IInv, TypeOK
<1>2. cmd[t].id \in AppId /\ cmd[t].verify \in BOOLEAN /\ AppDirs(t)' = AppDirs(t)
  BY DEF IInv, TypeOK, Command, AppDirs
<1>3. \A v \in BOOLEAN : <<v, cmd[t].id>> \in Place
  BY <1>2 DEF Place
<1>4. \A p \in AppDirs(t) : p \in Place
  BY <1>2, <1>3 DEF AppDirs
<1> QED BY <1>1, <1>2, <1>4 DEF RemoveAppDirs, AfterInstall

\* A command that is done, or gets there by its own step, has its package where it says.
LEMMA StepKeepsDone ==
    ASSUME IInv, StageInv, ConstantsAssumption, NEW t \in Task, Done(t), Step(t)
    PROVE  Done(t)'
<1>0. /\ cmd[t] \in Command /\ cmd[t] # NoCommand /\ ~finished[t] /\ waiting[t] = "none"
      /\ call = "step" /\ current = t
  BY StepContext
<1>a. /\ step \in [Task -> TaskStep] /\ waiting \in [Task -> Waits]
      /\ disk \in [Place -> {"absent", "package", "copy", "partial"}]
  BY DEF IInv, TypeOK
<1>b. Packaged(t) /\ InStage(t)
  BY <1>0 DEF StageInv, StageOK
<1>c. /\ cmd[t].id \in AppId /\ cmd[t].verify \in BOOLEAN /\ cmd[t].pwa \in BOOLEAN
      /\ <<TRUE, cmd[t].id>> \in Place
  BY <1>0 DEF Command, Place
<1>1. CASE StartUnpackagedInstall(t)
  <2>1. PlaceOf(t) = <<TRUE, cmd[t].id>>
    BY <1>1, <1>b DEF StartUnpackagedInstall, PlaceOf, Packaged
  <2>2. Configured(t, "IpkInstallNeeded") /\ cmd[t].name = "InstallTask"
    BY <1>0, <1>1, <1>b DEF StartUnpackagedInstall, Starting, InStage, Configured, Stages, RemoveStages,
                            Command
  <2>3. /\ UNCHANGED <<cmd, finished>>
        /\ \/ step'[t] = "ErrorInstall"
           \/ step'[t] = "IpkInstallComplete" /\ disk'[<<TRUE, cmd[t].id>>] = "copy"
    BY <1>0, <1>1, <1>a, <1>c, <2>1 DEF StartUnpackagedInstall, SetError, SetStep, PutOnDisk
  <2> QED BY <2>2, <2>3 DEF Done, AfterInstall, IsInstalled
<1>2. CASE StartDataRemove(t)
  <2>1. Configured(t, "DataRemoveNeeded") /\ cmd[t].name = "RemoveTask"
    BY <1>0, <1>2, <1>b DEF StartDataRemove, Starting, InStage, Configured, Stages, InstallStages,
                            Command
  <2>2. CASE Sent(t, "DataRemoveRequested", "dataRemove")
    <3>1. UNCHANGED cmd /\ step'[t] = "DataRemoveRequested"
      BY <1>0, <1>2, <1>a, <2>2 DEF StartDataRemove, Sent, SetStep
    <3> QED BY <2>1, <3>1 DEF Done, AfterRemove
  <2>3. CASE ~Sent(t, "DataRemoveRequested", "dataRemove")
    <3>1. /\ RemoveAppDirs(t) /\ SetStep(t, "DataRemoveComplete") /\ current' = t
          /\ UNCHANGED <<cmd, finished>>
      BY <1>2, <2>3 DEF StartDataRemove, ProceedThenFail
    <3>2. step'[t] = "DataRemoveComplete" /\ \A p \in AppDirs(t)' : disk'[p] = "absent"
      BY <1>0, <3>1, DataRemovedStatus
    <3> QED BY <2>1, <3>1, <3>2 DEF Done
  <2> QED BY <2>2, <2>3
<1>3. CASE ~StartUnpackagedInstall(t) /\ ~StartDataRemove(t)
  <2>1. /\ UNCHANGED <<cmd, finished, disk>>
        /\ step'[t] \notin AfterRemove /\ step'[t] # "InstallComplete"
        /\ \/ step'[t] = step[t] /\ step[t] # "IpkInstallComplete" /\ unpacked'[t] = unpacked[t]
           \/ ~AfterInstall(t)'
           \/ /\ step[t] = "ServiceInstallNeeded" /\ step'[t] = "ServiceInstallRequested"
              /\ unpacked'[t] = unpacked[t]
           \/ /\ step[t] = "InstallSmackNeeded" /\ step'[t] = "InstallSmackComplete"
              /\ unpacked'[t] = unpacked[t]
    BY <1>3, StepStatus
  <2>2. AfterInstall(t)' => AfterInstall(t) /\ unpacked'[t] = unpacked[t]
    BY <2>1 DEF AfterInstall
  <2>3. step'[t] # "RemoveComplete"
    BY <2>1 DEF AfterRemove
  <2> QED BY <2>1, <2>2, <2>3 DEF Done, Live, IsInstalled
<1> QED BY <1>1, <1>2, <1>3

\* The statuses that the callbacks of a live command set.
LEMMA CallbackStatus ==
    ASSUME IInv, StageInv, ConstantsAssumption, NEW t \in Task, Child(t) \/ Reply(t), ~finished[t],
           ~OnIpkInstalled(t), ~OnIpkRemoved(t), ~OnDataRemoved(t)
    PROVE  /\ UNCHANGED <<cmd, finished, disk>>
           /\ step'[t] \notin AfterRemove /\ step'[t] # "InstallComplete"
           /\ \/ ~AfterInstall(t)'
              \/ /\ step[t] = "ServiceInstallRequested" /\ step'[t] = "ServiceInstallComplete"
                 /\ unpacked'[t] = unpacked[t]
<1>0. cmd[t] # NoCommand /\ waiting[t] # "none" /\ t # NoTask /\ current = NoTask
  BY CallbackContext
<1>a. step \in [Task -> TaskStep] /\ waiting \in [Task -> Waits]
  BY DEF IInv, TypeOK
<1>b. step[t] \in WaitSteps[waiting[t]]
  BY <1>0 DEF StageInv, StageOK, InStage
<1> USE DEF Receives, SetStep, SetError, Await
<1>1. UNCHANGED <<cmd, finished, disk>>
  BY DEF Child, Exit, Reply, OnPackageExtracted, InstallProgress, OnRemoveJail, OnAppInfo, OnCloseInfo,
         OnCloseLock, OnAppClosed, OnServiceInstalled, OnServiceUninstalled,
         CloseGoesOn, CloseFails, envVars
<1> USE DEF AfterInstall, AfterRemove
<1>2. CASE OnPackageExtracted(t) \/ OnRemoveJail(t) \/ OnAppInfo(t) \/ OnServiceUninstalled(t)
  BY <1>a, <1>1, <1>2 DEF OnPackageExtracted, OnRemoveJail, OnAppInfo, OnServiceUninstalled
<1>3. CASE InstallProgress(t)
  <2>1. step[t] \in {"IpkInstallRequested", "IpkInstallCurrent", "IpkInstallComplete"}
    BY <1>b, <1>3 DEF InstallProgress, WaitSteps
  <2> QED BY <1>0, <1>a, <1>1, <1>3, <2>1 DEF InstallProgress, ReportedSteps
<1>4. CASE OnCloseInfo(t) \/ OnCloseLock(t) \/ OnAppClosed(t)
  <2>1. step[t] = "AppCloseRequested"
    BY <1>b, <1>4 DEF OnCloseInfo, OnCloseLock, OnAppClosed, WaitSteps
  <2> QED BY <1>a, <1>1, <1>4, <2>1 DEF OnCloseInfo, OnCloseLock, OnAppClosed, CloseGoesOn, CloseFails, ErrorOf
<1>5. CASE OnServiceInstalled(t)
  <2>1. step[t] = "ServiceInstallRequested"
    BY <1>b, <1>5 DEF OnServiceInstalled, WaitSteps
  <2> QED BY <1>a, <1>1, <1>5, <2>1 DEF OnServiceInstalled
<1> QED BY <1>2, <1>3, <1>4, <1>5 DEF Child, Exit, Reply

\* opkg has removed the package of the id, or knew of none.
OpkgRemoved(t) == PackageRemoved(RemovedPlace(t)) \/ PackageUnknown(RemovedPlace(t))

\* So has one that gets there by the exit of opkg or a reply.
LEMMA CallbackKeepsDone ==
    ASSUME IInv, StageInv, ConstantsAssumption, NEW t \in Task, Done(t), Child(t) \/ Reply(t)
    PROVE  Done(t)'
<1>0. cmd[t] \in Command /\ cmd[t] # NoCommand /\ waiting[t] # "none"
  BY CallbackContext
<1>a. /\ step \in [Task -> TaskStep] /\ waiting \in [Task -> Waits]
      /\ disk \in [Place -> {"absent", "package", "copy", "partial"}]
  BY DEF IInv, TypeOK
<1>b. Packaged(t) /\ InStage(t)
  BY <1>0 DEF StageInv, StageOK
<1>c. /\ cmd[t].id \in AppId /\ cmd[t].verify \in BOOLEAN /\ cmd[t].pwa \in BOOLEAN
      /\ <<TRUE, cmd[t].id>> \in Place /\ cmd[t].name \in {"InstallTask", "RemoveTask"}
  BY <1>0 DEF Command, Place
<1> USE DEF Receives, SetStep, SetError, Await
<1>1. CASE finished[t]
  <2>1. UNCHANGED <<cmd, finished>>
    BY DEF Child, Exit, Reply, OnPackageExtracted, InstallProgress, OnIpkInstalled, OnRemoveJail, OnIpkRemoved,
           OnAppInfo, OnCloseInfo, OnCloseLock, OnAppClosed, OnServiceInstalled, OnServiceUninstalled,
           OnDataRemoved
  <2> QED BY <1>1, <2>1 DEF Done, Live
<1>2. CASE ~finished[t] /\ OnIpkInstalled(t)
  <2>1. Configured(t, "IpkInstallNeeded")
    BY <1>2, <1>b DEF OnIpkInstalled, InStage, WaitStage
  <2>2. cmd[t].name = "InstallTask"
    BY <1>c, <2>1 DEF Configured, Stages, RemoveStages
  <2>3. cmd[t].verify => PlaceOf(t) = <<TRUE, cmd[t].id>>
    BY <1>2, <1>b, <1>c DEF OnIpkInstalled, PlaceOf, Packaged
  <2>4. /\ UNCHANGED <<cmd, finished>>
        /\ \/ step'[t] = "ErrorInstall"
           \/ /\ step'[t] = step[t]
              /\ cmd[t].verify /\ unpacked'[t] => disk'[<<TRUE, cmd[t].id>>] = "package"
    BY <1>2, <1>a, <1>c, <2>3 DEF OnIpkInstalled, OpkgFailed, PutOnDisk
  <2>5. step[t] \in {"IpkInstallRequested", "IpkInstallCurrent", "IpkInstallComplete"}
    <3>1. current # t
      BY CallbackContext
    <3> QED BY <1>2, <1>b, <3>1 DEF OnIpkInstalled, InStage, WaitSteps
  <2> QED BY <2>2, <2>4, <2>5 DEF Done, AfterInstall, IsInstalled
<1>3. CASE ~finished[t] /\ OnIpkRemoved(t)
  <2>1. Configured(t, "IpkRemoveNeeded")
    BY <1>3, <1>b DEF OnIpkRemoved, InStage, WaitStage
  <2>2. cmd[t].name = "RemoveTask"
    BY <1>c, <2>1 DEF Configured, Stages, InstallStages
  <2>3. /\ UNCHANGED <<cmd, finished>>
        /\ \/ step'[t] \in {"ErrorRemove", "IpkRemoveComplete"}
           \/ step'[t] = "RemoveComplete" /\ IsRollback(t)' /\ OpkgRemoved(t)
    BY <1>3, <1>a, <1>c DEF OnIpkRemoved, RemovedStep, IsRollback, OpkgRemoved
  <2>4. current' = t /\ RemovedPlace(t)' = RemovedPlace(t)
    BY <1>3, <2>3 DEF OnIpkRemoved, Proceed, RemovedPlace
  <2>5. OpkgRemoved(t) => disk'[RemovedPlace(t)] # "package"
    <3>1. RemovedPlace(t) \in Place
      BY <1>c DEF RemovedPlace, Place
    <3> QED BY <1>a, <3>1 DEF OpkgRemoved, PackageRemoved, PackageUnknown, NothingDone, PutOnDisk
  <2> QED BY <2>2, <2>3, <2>4, <2>5 DEF Done, AfterRemove
<1>4. CASE ~finished[t] /\ OnDataRemoved(t)
  <2>1. Configured(t, "DataRemoveNeeded")
    BY <1>4, <1>b DEF OnDataRemoved, InStage, WaitStage
  <2>2. cmd[t].name = "RemoveTask"
    BY <1>c, <2>1 DEF Configured, Stages, InstallStages
  <2>3. /\ RemoveAppDirs(t) /\ SetStep(t, "DataRemoveComplete") /\ current' = t
        /\ UNCHANGED <<cmd, finished>>
    BY <1>4 DEF OnDataRemoved, Proceed
  <2>4. step'[t] = "DataRemoveComplete" /\ \A p \in AppDirs(t)' : disk'[p] = "absent"
    BY <1>0, <1>4, <2>3, DataRemovedStatus
  <2> QED BY <2>2, <2>3, <2>4 DEF Done
<1>5. CASE ~finished[t] /\ ~OnIpkInstalled(t) /\ ~OnIpkRemoved(t) /\ ~OnDataRemoved(t)
  <2>1. /\ UNCHANGED <<cmd, finished, disk>>
        /\ step'[t] \notin AfterRemove /\ step'[t] # "InstallComplete"
        /\ \/ ~AfterInstall(t)'
           \/ /\ step[t] = "ServiceInstallRequested" /\ step'[t] = "ServiceInstallComplete"
              /\ unpacked'[t] = unpacked[t]
    BY <1>5, CallbackStatus
  <2>2. AfterInstall(t)' => AfterInstall(t) /\ unpacked'[t] = unpacked[t]
    BY <2>1 DEF AfterInstall
  <2>3. step'[t] # "RemoveComplete"
    BY <2>1 DEF AfterRemove
  <2> QED BY <2>1, <2>2, <2>3 DEF Done, Live, IsInstalled
<1> QED BY <1>1, <1>2, <1>3, <1>4, <1>5

\* The statuses that Task::proceed sets.
LEMMA StageStatus ==
    ASSUME IInv, ConstantsAssumption, StepTablesInOrder, NEW t \in Task, ProceedToStage(t)
    PROVE  /\ UNCHANGED <<cmd, finished, unpacked, waiting, disk, current>>
           /\ current = t /\ Live(t) /\ waiting[t] = "none" /\ cmd[t].name \in {"InstallTask", "RemoveTask"}
           /\ cmd[t].name = "InstallTask" =>
                  /\ AfterInstall(t)' => AfterInstall(t)
                  /\ step'[t] # "RemoveComplete"
           /\ cmd[t].name = "RemoveTask" =>
                  /\ step'[t] \in AfterRemove => step[t] = "DataRemoveComplete"
                  /\ step'[t] # "InstallComplete"
<1>1. current = t /\ Live(t) /\ waiting[t] = "none"
  BY DEF ProceedToStage, Live, IInv, FramesOK, ConstantsAssumption
<1>2. cmd[t].name \in {"InstallTask", "RemoveTask"}
  BY <1>1 DEF Live, IInv, TypeOK, Command
<1>3. /\ step[t] \in DOMAIN StepTable(t) /\ step'[t] = StepTable(t)[step[t]]
      /\ UNCHANGED <<cmd, finished, unpacked, waiting, disk, current>>
  BY DEF ProceedToStage, SetStep, IInv, TypeOK, envVars
<1>4. CASE cmd[t].name = "InstallTask"
  <2>1. /\ step'[t] \in StepFactory \/ step'[t] = "InstallComplete"
        /\ step'[t] \in {"ServiceInstallNeeded", "InstallSmackNeeded", "InstallComplete"} =>
               step[t] \in {"IpkInstallComplete", "ServiceInstallComplete", "InstallSmackComplete"}
    BY <1>3, <1>4, EntryOf
  <2> QED BY <1>1, <1>3, <1>4, <2>1 DEF AfterInstall, StepFactory
<1>5. CASE cmd[t].name = "RemoveTask"
  <2>1. /\ step'[t] \in StepFactory \/ step'[t] = "RemoveComplete"
        /\ step'[t] = "RemoveComplete" => step[t] = "DataRemoveComplete"
    BY <1>3, <1>5, EntryOf
  <2> QED BY <1>1, <1>3, <1>5, <2>1 DEF AfterRemove, StepFactory
<1> QED BY <1>2, <1>4, <1>5

LEMMA UnwindKeepsDone ==
    ASSUME IInv, StageInv, ConstantsAssumption, StepTablesInOrder, NEW t \in Task, Done(t), Unwind(t)
    PROVE  Done(t)'
<1>a. /\ step \in [Task -> TaskStep] /\ finished \in [Task -> BOOLEAN]
      /\ cmd \in [Task -> Command \cup {NoCommand}]
  BY DEF IInv, TypeOK
<1>1. CASE FinishTask(t)
  BY <1>1, <1>a DEF FinishTask, Done, Live
<1>2. CASE ProceedToEnd(t) \/ FinishAgain(t)
  <2>1. CASE ProceedToEnd(t)
    BY <2>1 DEF ProceedToEnd, Fail, Done, Live, AfterInstall, IsRollback, IsInstalled, AppDirs,
                 RemovedPlace, taskVars, envVars
  <2>2. CASE FinishAgain(t)
    BY <2>2 DEF FinishAgain, Done, Live, taskVars
  <2> QED BY <1>2, <2>1, <2>2
<1>3. CASE ProceedFinished(t)
  <2>1. finished[t] /\ (Destroy(t) \/ UNCHANGED <<cmd, taskVars>>)
    BY <1>3 DEF ProceedFinished
  <2>2. ~Live(t)'
    BY <1>a, <2>1 DEF Destroy, Live, taskVars
  <2> QED BY <2>2 DEF Done
<1>4. CASE ReportServiceFailure(t)
  <2>1. /\ UNCHANGED <<cmd, finished, waiting, disk>>
        /\ step'[t] = IF finished[t] THEN step[t] ELSE "ErrorRemove"
    BY <1>4, <1>a DEF ReportServiceFailure, SetError, SetStep, envVars
  <2> QED BY <2>1 DEF Done, Live, AfterInstall, AfterRemove
<1>5. CASE ProceedToStage(t)
  <2>1. /\ UNCHANGED <<cmd, finished, unpacked, disk, current>>
        /\ cmd[t].name \in {"InstallTask", "RemoveTask"}
        /\ cmd[t].name = "InstallTask" =>
               (AfterInstall(t)' => AfterInstall(t)) /\ step'[t] # "RemoveComplete"
        /\ cmd[t].name = "RemoveTask" =>
               /\ step'[t] \in AfterRemove => step[t] = "DataRemoveComplete"
               /\ step'[t] # "InstallComplete"
    BY <1>5, StageStatus
  <2>2. /\ Live(t)' <=> Live(t)
        /\ IsRollback(t)' <=> IsRollback(t)
        /\ AppDirs(t)' = AppDirs(t)
    BY <2>1 DEF Live, IsRollback, AppDirs
  <2>3. IsRollback(t) /\ Live(t) => step[t] # "DataRemoveComplete"
    BY DEF Live, StageInv, StageOK, SparesData
  <2> QED BY <2>1, <2>2, <2>3 DEF Done, IsInstalled, AfterRemove
<1> QED BY <1>1, <1>2, <1>3, <1>4, <1>5 DEF Unwind

\* Where no unpackaged install is asked for, none is made.
LEMMA NextKeepsNoneUnpackaged ==
    ASSUME IInv, StageInv, NoneUnpackaged, ConstantsAssumption, [Next]_vars
    PROVE  NoneUnpackaged'
<1> SUFFICES ASSUME PwaIds = {}, NEW t \in Task PROVE ~cmd'[t].pwa
  BY DEF NoneUnpackaged
<1>a. ~cmd[t].pwa /\ ~NoCommand.pwa /\ cmd \in [Task -> Command \cup {NoCommand}]
  BY DEF NoneUnpackaged, NoCommand, IInv, TypeOK
<1>1. \A u \in FreeTasks : \A c, q : CreateTask(u, c, q) /\ ~c.pwa => ~cmd'[t].pwa
  BY <1>a DEF CreateTask, FreeTasks
<1>2. CASE Client
  <2>1. ASSUME NEW a \in AppId, NEW v \in BOOLEAN, NEW w \in BOOLEAN, Install(a, v, w)
        PROVE  ~cmd'[t].pwa
    BY <1>1, <2>1 DEF Install
  <2>2. ASSUME NEW a \in AppId, NEW v \in BOOLEAN, Remove(a, v) PROVE ~cmd'[t].pwa
    BY <1>1, <2>2 DEF Remove
  <2> QED BY <1>2, <2>1, <2>2 DEF Client
<1>3. CASE Rollback
  BY <1>1, <1>3, <1>a DEF Rollback
<1>4. CASE ReleaseTask
  BY <1>4, <1>a, ReleaseContext DEF Destroy
<1>5. CASE DeferredProceed \/ DeferredServiceFailed \/ DeferredJailFailed
  BY <1>5, <1>a DEF DeferredProceed, DeferredServiceFailed, DeferredJailFailed
<1>6. ASSUME NEW u \in Task, Unwind(u) \/ Step(u) \/ Child(u) \/ Reply(u) PROVE ~cmd'[t].pwa
  BY <1>6, <1>a, StepMovesDevice, CallbackMovesDevice, UnwindMovesDevice DEF LockMove, Destroy
<1>7. CASE Crash \/ UNCHANGED vars \/ \E p \in Place : OrphanExits(p)
  BY <1>7, <1>a DEF Crash, vars, OrphanExits
<1> QED BY <1>2, <1>3, <1>4, <1>5, <1>6, <1>7 DEF Next, Deferred

\* Only a step of a live command starts to wait for opkg.
LEMMA OpkgAwaited ==
    ASSUME IInv, NEW t \in Task, Unwind(t) \/ Step(t) \/ Child(t) \/ Reply(t),
           waiting'[t] = "ipkRemove"
    PROVE  waiting[t] = "ipkRemove" \/ Step(t)
<1>a. waiting \in [Task -> Waits]
  BY DEF IInv, TypeOK
<1>1. CASE Unwind(t)
  BY <1>1 DEF Unwind, ProceedToStage, ProceedToEnd, ProceedFinished, FinishTask, FinishAgain,
              ReportServiceFailure
<1>2. CASE Child(t) \/ Reply(t)
  BY <1>2, <1>a DEF Child, Exit, Reply, OnPackageExtracted, InstallProgress, OnIpkInstalled, OnRemoveJail,
              OnIpkRemoved, OnAppInfo, OnCloseInfo, OnCloseLock, OnAppClosed, OnServiceInstalled,
              OnServiceUninstalled, OnDataRemoved, CloseGoesOn, CloseFails, Await
<1> QED BY <1>1, <1>2

\* A command gets past its install with its own opkg child or as an unpackaged one.
LEMMA InstallsWithOpkg ==
    ASSUME IInv, StageInv, ConstantsAssumption, StepTablesInOrder, NEW t \in Task,
           Unwind(t) \/ Step(t) \/ Child(t) \/ Reply(t), Live(t), Live(t)',
           cmd[t].name = "InstallTask", AfterInstall(t)'
    PROVE  AfterInstall(t) \/ cmd[t].pwa \/ waiting[t] = "ipkInstall"
<1>a. step \in [Task -> TaskStep] /\ finished \in [Task -> BOOLEAN]
  BY DEF IInv, TypeOK
<1>1. CASE Step(t)
  <2>1. CASE StartUnpackagedInstall(t)
    BY <2>1 DEF StartUnpackagedInstall
  <2>2. CASE StartDataRemove(t)
    <3>1. step'[t] \in {"DataRemoveRequested", "DataRemoveComplete"}
      BY <1>a, <2>2 DEF StartDataRemove, Sent, SetStep, Live
    <3> QED BY <3>1 DEF AfterInstall
  <2>3. CASE ~StartUnpackagedInstall(t) /\ ~StartDataRemove(t)
    <3>1. \/ step'[t] = step[t] /\ step[t] # "IpkInstallComplete"
          \/ ~AfterInstall(t)'
          \/ step[t] = "ServiceInstallNeeded" /\ step'[t] = "ServiceInstallRequested"
          \/ step[t] = "InstallSmackNeeded" /\ step'[t] = "InstallSmackComplete"
      BY <1>1, <2>3, StepStatus
    <3> QED BY <3>1 DEF AfterInstall
  <2> QED BY <2>1, <2>2, <2>3
<1>2. CASE Child(t) \/ Reply(t)
  <2>1. CASE OnIpkInstalled(t)
    BY <2>1 DEF OnIpkInstalled, Receives
  <2>2. CASE OnIpkRemoved(t)
    <3>1. cmd[t] # NoCommand /\ waiting[t] = "ipkRemove"
      BY <2>2 DEF OnIpkRemoved, Receives, Live
    <3>2. Configured(t, "IpkRemoveNeeded")
      BY <3>1 DEF StageInv, StageOK, InStage, WaitStage
    <3> QED BY <3>2 DEF Configured, Stages, InstallStages
  <2>3. CASE OnDataRemoved(t)
    <3>1. step'[t] = "DataRemoveComplete"
      BY <1>a, <2>3 DEF OnDataRemoved, SetStep, Live
    <3> QED BY <3>1 DEF AfterInstall
  <2>4. CASE ~OnIpkInstalled(t) /\ ~OnIpkRemoved(t) /\ ~OnDataRemoved(t)
    <3>1. \/ ~AfterInstall(t)'
          \/ step[t] = "ServiceInstallRequested" /\ step'[t] = "ServiceInstallComplete"
      BY <1>2, <2>4, CallbackStatus DEF Live
    <3> QED BY <3>1 DEF AfterInstall
  <2> QED BY <2>1, <2>2, <2>3, <2>4
<1>3. CASE Unwind(t)
  <2>1. CASE ProceedToStage(t)
    BY <2>1, StageStatus
  <2>2. CASE ProceedToEnd(t) \/ FinishAgain(t)
    BY <2>2 DEF ProceedToEnd, FinishAgain, AfterInstall, taskVars
  <2>3. ~FinishTask(t) /\ ~ProceedFinished(t)
    BY <1>a DEF Live, FinishTask, ProceedFinished
  <2>4. CASE ReportServiceFailure(t)
    <3>1. step'[t] = "ErrorRemove"
      BY <1>a, <2>4 DEF ReportServiceFailure, SetError, SetStep, Live
    <3> QED BY <3>1 DEF AfterInstall
  <2> QED BY <1>3, <2>1, <2>2, <2>3, <2>4 DEF Unwind
<1> QED BY <1>1, <1>2, <1>3

LEMMA NextKeepsRemovedAlone ==
    ASSUME IInv, StageInv, OpkgExclusive, NoneUnpackaged, RemovedAlone, IInv',
           ConstantsAssumption, StepTablesInOrder, [Next]_vars
    PROVE  RemovedAlone'
<1> SUFFICES ASSUME PwaIds = {}, NEW t \in Task, NEW u \in Task, t # u, waiting'[u] = "ipkRemove",
                    Live(t)', cmd'[t].name = "InstallTask", cmd'[u].id = cmd'[t].id,
                    AfterInstall(t)'
             PROVE  FALSE
  BY DEF RemovedAlone
<1>a. ~(waiting[u] = "ipkRemove" /\ Live(t) /\ cmd[t].name = "InstallTask"
        /\ cmd[u].id = cmd[t].id /\ AfterInstall(t))
  BY DEF RemovedAlone
<1>b. cmd'[u] # NoCommand /\ cmd'[t] # NoCommand
  BY DEF IInv, EntriesOK, Live
<1>1. CASE Client \/ Deferred
  <2>1. LoopMove(t) /\ LoopMove(u)
    BY <1>1, LoopMoves
  <2>2. waiting[u] = "ipkRemove" /\ cmd[u] # NoCommand
    BY <2>1 DEF LoopMove, IInv, EntriesOK
  <2>3. cmd'[u] = cmd[u]
    BY <1>b, <2>1, <2>2 DEF LoopMove
  <2>4. Live(t) /\ cmd'[t] = cmd[t] /\ AfterInstall(t)
    BY <2>1 DEF LoopMove, AfterInstall
  <2> QED BY <1>a, <2>2, <2>3, <2>4
<1>2. ASSUME NEW v \in Task, Unwind(v) \/ Step(v) \/ Child(v) \/ Reply(v) PROVE FALSE
  <2>1. Apart(v) /\ LockMove(v)
    BY <1>2, UnwindKeepsStages, StepKeepsStages, CallbackKeepsStages, StepMovesDevice,
       CallbackMovesDevice, UnwindMovesDevice
  <2>2. cmd'[u] = cmd[u] /\ cmd'[t] = cmd[t] /\ Live(t)
    BY <1>b, <2>1 DEF LockMove, Destroy, Live, IInv, TypeOK
  <2>3. CASE v # t /\ v # u
    <3>1. step'[t] = step[t] /\ waiting'[t] = waiting[t] /\ waiting'[u] = waiting[u]
      BY <2>1, <2>3 DEF Apart
    <3> QED BY <1>a, <2>2, <3>1 DEF AfterInstall
  <2>4. CASE v = u
    <3>1. step'[t] = step[t] /\ waiting'[t] = waiting[t]
      BY <2>1, <2>4 DEF Apart
    <3>2. Step(u)
      BY <1>2, <1>a, <2>2, <2>4, <3>1, OpkgAwaited DEF AfterInstall
    <3>3. ~finished[u] /\ cmd[u] # NoCommand
      BY <3>2, StepContext
    <3> QED BY <2>2, <3>3 DEF IInv, EntriesOK, Stray, Live
  <2>5. CASE v = t
    <3>1. waiting[u] = "ipkRemove"
      BY <2>1, <2>5 DEF Apart
    <3>2. waiting[t] # "ipkInstall"
      BY <3>1 DEF OpkgExclusive, UsesOpkg
    <3>3. ~AfterInstall(t) /\ ~cmd[t].pwa
      BY <1>a, <2>2, <3>1 DEF NoneUnpackaged
    <3> QED BY <1>2, <2>2, <2>5, <3>2, <3>3, InstallsWithOpkg
  <2> QED BY <2>3, <2>4, <2>5
<1>3. ~Crash
  BY <1>b DEF Crash
<1>4. CASE UNCHANGED vars \/ \E p \in Place : OrphanExits(p)
  <2>1. UNCHANGED <<cmd, finished, step, waiting>>
    BY <1>4 DEF vars, OrphanExits, taskVars
  <2> QED BY <1>a, <2>1 DEF Live, AfterInstall
<1> QED BY <1>1, <1>2, <1>3, <1>4 DEF Next

LEMMA NextKeepsDoneInv ==
    ASSUME IInv, StageInv, OpkgExclusive, DoneInv, IInv', ~SendMayFail \/ PwaIds = {},
           ConstantsAssumption, StepTablesInOrder, [Next]_vars
    PROVE  DoneInv'
<1>a. NoneUnpackaged' /\ RemovedAlone'
  BY NextKeepsNoneUnpackaged, NextKeepsRemovedAlone DEF DoneInv
<1> SUFFICES ASSUME crashes' = 0
             PROVE  orphans' = {} /\ \A t \in Task : Done(t)'
  BY <1>a DEF DoneInv
<1>0. ~Crash /\ orphans = {} /\ RemovedAlone /\ \A t \in Task : Done(t)
  BY CrashesCounted DEF DoneInv
<1>1. CASE Client \/ Deferred
  <2>1. \A t \in Task : Done(t)'
    BY <1>0, <1>1, LoopLeavesDone
  <2>2. UNCHANGED orphans
    BY <1>1, LoopSparesDevice DEF envVars
  <2> QED BY <1>0, <2>1, <2>2
<1>2. ASSUME NEW u \in Task, Unwind(u) \/ Step(u) \/ Child(u) \/ Reply(u)
      PROVE  orphans' = {} /\ \A t \in Task : Done(t)'
  <2>1. UNCHANGED orphans /\ DiskMove(u)
    BY <1>2, StepMovesDevice, CallbackMovesDevice, UnwindMovesDevice
  <2>2. Apart(u)
    BY <1>2, UnwindKeepsStages, StepKeepsStages, CallbackKeepsStages
  <2>3. Done(u)'
    BY <1>0, <1>2, StepKeepsDone, CallbackKeepsDone, UnwindKeepsDone
  <2>4. ASSUME NEW t \in Task, t # u PROVE Done(t)'
    BY <1>0, <2>1, <2>2, <2>4, OthersLeaveDone
  <2> QED BY <1>0, <2>1, <2>3, <2>4
<1>3. CASE UNCHANGED vars
  <2>1. UNCHANGED <<cmd, step, finished, unpacked, waiting, current, disk, orphans>>
    BY <1>3 DEF vars, taskVars, loopVars, envVars
  <2>2. \A t \in Task : Done(t)' <=> Done(t)
    BY <2>1 DEF Done, Live, AfterInstall, IsInstalled, IsRollback, AppDirs, RemovedPlace
  <2> QED BY <1>0, <2>1, <2>2
<1>4. ~ \E p \in Place : OrphanExits(p)
  BY <1>0 DEF OrphanExits
<1> QED BY <1>0, <1>1, <1>2, <1>3, <1>4 DEF Next

(***************************************************************************)
(* Until the daemon crashes (and leaves an opkg child behind), a verified  *)
(* command that reports complete has done it, whatever the other commands  *)
(* and rollbacks do at the same time: an install has its app installed, if *)
(* opkg reported no failed validation, a client's remove has left it in    *)
(* neither root, and a rollback no package of opkg.  Calls that cannot be  *)
(* sent do not matter where every install takes the opkg lock: a remove    *)
(* that was given up while its child still runs keeps others from          *)
(* installing what that child removes.  An unpackaged install takes none.  *)
(***************************************************************************)
THEOREM CompleteIsTrue ==
    ~SendMayFail \/ PwaIds = {} => (Spec => [](crashes = 0 => CompletedMeansDone))
<1> USE ConstantsAssumption, StepTablesInOrder
<1> SUFFICES ASSUME ~SendMayFail \/ PwaIds = {}
             PROVE  Spec => [](crashes = 0 => CompletedMeansDone)
  OBVIOUS
<1>1. Init => DoneInv
  BY DEF Init, DoneInv, Done, Live, NoneUnpackaged, RemovedAlone, NoCommand
<1>2. IInv /\ IInv' /\ StageInv /\ OpkgExclusive /\ DoneInv /\ [Next]_vars => DoneInv'
  BY NextKeepsDoneInv
<1>3. IInv /\ StageInv /\ DoneInv => (crashes = 0 => CompletedMeansDone)
  <2> SUFFICES ASSUME IInv, StageInv, DoneInv, crashes = 0, NEW t \in Task, Live(t), cmd[t].verify
               PROVE  /\ step[t] = "InstallComplete" /\ unpacked[t] => IsInstalled(PlaceOf(t))
                      /\ step[t] = "RemoveComplete" /\ ~IsRollback(t) =>
                             \A p \in AppDirs(t) : disk[p] = "absent"
                      /\ step[t] = "RemoveComplete" /\ IsRollback(t) =>
                             disk[RemovedPlace(t)] # "package"
    BY DEF CompletedMeansDone, IsRollback
  <2>1. Done(t)
    BY DEF DoneInv
  <2>2. /\ Packaged(t) /\ cmd[t].verify = TRUE
        /\ cmd[t].name \in {"InstallTask", "RemoveTask"}
    BY DEF StageInv, StageOK, Live, IInv, TypeOK, Command
  <2>3. ASSUME step[t] = "InstallComplete", unpacked[t] PROVE IsInstalled(PlaceOf(t))
    <3>1. cmd[t].name = "InstallTask"
      BY <2>1, <2>2, <2>3 DEF Done
    <3>2. IsInstalled(<<TRUE, cmd[t].id>>)
      BY <2>1, <2>3, <3>1 DEF Done, AfterInstall
    <3>3. PlaceOf(t) = <<TRUE, cmd[t].id>>
      BY <2>2, <2>3, <3>1 DEF PlaceOf, Packaged, BeforeParse, ErrorSteps
    <3> QED BY <3>2, <3>3
  <2>4. ASSUME step[t] = "RemoveComplete", ~IsRollback(t)
        PROVE  \A p \in AppDirs(t) : disk[p] = "absent"
    <3>1. cmd[t].name = "RemoveTask"
      BY <2>1, <2>2, <2>4 DEF Done
    <3> QED BY <2>1, <2>4, <3>1 DEF Done, AfterRemove
  <2>5. ASSUME step[t] = "RemoveComplete", IsRollback(t)
        PROVE  disk[RemovedPlace(t)] # "package"
    <3>1. cmd[t].name = "RemoveTask"
      BY <2>1, <2>2, <2>5 DEF Done
    <3> QED BY <2>1, <2>5, <3>1 DEF Done
  <2> QED BY <2>3, <2>4, <2>5
<1>4. Spec => [](IInv /\ StageInv) /\ []OpkgExclusive
  BY StagesHold, OneOpkgAtATime
<1> QED BY <1>1, <1>2, <1>3, <1>4, PTL DEF Spec

=============================================================================
