--------------------------- MODULE AppInstallerProofs ---------------------------
(***************************************************************************)
(* Proofs about AppInstaller, for any ids, tasks, step tables and bounds.  *)
(***************************************************************************)
EXTENDS AppInstaller, TLAPS

---------------------------------------------------------------------------
(* Lemmas about the operators of the model.                                *)

\* The statuses the steps set are TaskStep values.
LEMMA StepNames ==
    {"Unknown", "IpkParseComplete", "GetIpkInfoRequested", "GetIpkInfoComplete",
     "AppCloseRequested", "AppCloseComplete", "IpkInstallRequested", "IpkInstallCurrent",
     "IpkInstallComplete", "ServiceInstallRequested", "ServiceInstallComplete",
     "InstallSmackComplete", "InstallComplete", "ErrorInstall", "RemoveStarted",
     "RemoveJailRequested", "RemoveJailComplete", "RemoveSmackComplete",
     "ServiceUninstallComplete", "IpkRemoveRequested", "IpkRemoveComplete",
     "DataRemoveRequested", "DataRemoveComplete", "RemoveComplete", "ErrorRemove"}
    \subseteq TaskStep
BY DEF TaskStep

\* Task::setStep and setError keep the types of m_step and m_errorCode.
LEMMA SetStepType ==
    ASSUME TypeOK, NEW t, NEW s \in TaskStep
    PROVE  /\ SetStep(t, s) => step' \in [Task -> TaskStep]
           /\ SetError(t, s) => step' \in [Task -> TaskStep] /\ error' \in [Task -> BOOLEAN]
BY DEF TypeOK, SetStep, SetError

LEMMA AwaitType ==
    ASSUME TypeOK, NEW t, NEW w \in Waits, Await(t, w)
    PROVE  waiting' \in [Task -> Waits]
BY DEF TypeOK, Await

\* A frame that returns, goes on or fails leaves a well-formed call stack.
LoopType ==
    /\ call \in {"none", "proceed", "step", "finish", "report"}
    /\ current \in Task \cup {NoTask}
    /\ unwind \in {"none", "finish", "report"}

LEMMA FrameType ==
    ASSUME TypeOK, NEW t \in Task \cup {NoTask}
    PROVE  /\ Return => LoopType'
           /\ Proceed(t) => LoopType'
           /\ ProceedThenFail(t) => LoopType'
           /\ Fail => LoopType'
           /\ UNCHANGED loopVars => LoopType'
BY DEF TypeOK, LoopType, Return, Proceed, ProceedThenFail, Fail, loopVars

\* The oldest deferred call, and what is left without it.
LEMMA HeadType ==
    ASSUME TypeOK, deferred # <<>>, ConstantsAssumption
    PROVE  /\ Head(deferred) \in DeferredCall
           /\ Tail(deferred) \in Seq(DeferredCall)
           /\ Head(deferred).task \in Task \cup {NoTask}
           /\ Head(deferred).call = "rollback" =>
                  /\ Head(deferred).id \in AppId
                  /\ Head(deferred).verify \in BOOLEAN
                  /\ Head(deferred).unpacked \in AnyPlace
<1>1. Head(deferred) \in DeferredCall /\ Tail(deferred) \in Seq(DeferredCall)
  BY DEF TypeOK
<1>2. \A d \in DeferredCall :
          /\ d.task \in Task \cup {NoTask}
          /\ d.call = "rollback" =>
                 d.id \in AppId /\ d.verify \in BOOLEAN /\ d.unpacked \in AnyPlace
  BY DEF DeferredCall, TaskCall, ReleaseCall, RollbackCall, TaskCalls
<1> QED BY <1>1, <1>2

\* Every place and package a command names.
LEMMA PlaceType ==
    ASSUME TypeOK, NEW t \in Task
    PROVE  /\ PlaceOf(t) \in AnyPlace
           /\ RemovedPlace(t) \in AnyPlace
           /\ cmd[t].id \in Package /\ cmd[t].verify \in BOOLEAN
           /\ cmd[t].name = "InstallTask" => cmd[t].id \in AppId
<1>1. cmd[t] \in Command \cup {NoCommand} /\ pkg[t] \in Package
  BY DEF TypeOK
<1>2. /\ cmd[t].id \in Package /\ cmd[t].verify \in BOOLEAN /\ cmd[t].pwa \in BOOLEAN
      /\ cmd[t].name = "InstallTask" => cmd[t].id \in AppId
  <2>1. CASE cmd[t] \in Command
    BY <2>1 DEF Command, Package
  <2>2. CASE cmd[t] = NoCommand
    BY <2>2 DEF NoCommand, Package
  <2> QED BY <1>1, <2>1, <2>2
<1>3. (cmd[t].verify \/ cmd[t].pwa) \in BOOLEAN
  BY <1>2
<1> QED BY <1>1, <1>2, <1>3 DEF PlaceOf, RemovedPlace, AnyPlace

---------------------------------------------------------------------------
(* Type correctness.                                                       *)

\* TypeOK by parts: of the tasks, of the loop and of the rest.
LEMMA CreateTaskType ==
    ASSUME TypeOK, ConstantsAssumption, NEW t \in Task, NEW c \in Command,
           NEW q \in Seq(DeferredCall), CreateTask(t, c, q)
    PROVE  TypeOK'
<1>1. mapTask' \in [AppId -> Task \cup {NoTask}] /\ cmd' \in [Task -> Command \cup {NoCommand}]
  BY DEF TypeOK, CreateTask
<1>2. c.id \in Package
  BY DEF Command, Package
<1>3. pkg' \in [Task -> Package]
  BY <1>2 DEF TypeOK, CreateTask, InitialPackage, Package
<1>4. step' \in [Task -> TaskStep]
  BY StepNames DEF TypeOK, CreateTask
<1>5. deferred' \in Seq(DeferredCall)
  <2>1. TaskCall("proceed", t) \in DeferredCall
    BY DEF DeferredCall, TaskCalls
  <2> QED BY <2>1 DEF CreateTask
<1> QED BY <1>1, <1>3, <1>4, <1>5 DEF TypeOK, CreateTask, loopVars, envVars

LEMMA DestroyType ==
    ASSUME TypeOK, NEW t, Destroy(t) \/ UNCHANGED <<cmd, taskVars>>
    PROVE  /\ cmd' \in [Task -> Command \cup {NoCommand}]
           /\ pkg' \in [Task -> Package]
           /\ step' \in [Task -> TaskStep]
           /\ error' \in [Task -> BOOLEAN]
           /\ finished' \in [Task -> BOOLEAN]
           /\ unpacked' \in [Task -> BOOLEAN]
           /\ held' \subseteq Task
<1>1. CASE Destroy(t)
  <2>1. "Unknown" \in TaskStep /\ NoApp \in Package
    BY StepNames DEF Package
  <2> QED BY <1>1, <2>1 DEF TypeOK, Destroy
<1>2. CASE UNCHANGED <<cmd, taskVars>>
  BY <1>2 DEF TypeOK, taskVars
<1> QED BY <1>1, <1>2

\* The initial states.
LEMMA InitType == ConstantsAssumption /\ Init => TypeOK
<1> SUFFICES ASSUME ConstantsAssumption, Init PROVE TypeOK
  OBVIOUS
<1>1. "Unknown" \in TaskStep /\ NoApp \in Package /\ "none" \in Waits
  BY StepNames DEF Package, Waits
<1>2. deferred \in Seq(DeferredCall)
  BY DEF Init
<1>3. crashes \in 0 .. MaxCrashes
  BY DEF Init, ConstantsAssumption
<1> QED BY <1>1, <1>2, <1>3 DEF Init, TypeOK

\* What a client asks for and what the main loop's deferred calls do.
LEMMA LoopStepType ==
    ASSUME TypeOK, ConstantsAssumption, Client \/ Deferred
    PROVE  TypeOK'
<1>0. NoPlace \in AnyPlace
  BY DEF NoPlace, AnyPlace, Package
<1>1. ASSUME NEW a \in AppId, NEW v \in BOOLEAN, NEW w \in BOOLEAN, Install(a, v, w)
      PROVE  TypeOK'
  <2>1. PICK t \in FreeTasks :
            CreateTask(t, [name |-> "InstallTask", id |-> a, verify |-> v, pwa |-> w,
                           cleans |-> NoPlace], deferred)
    BY <1>1 DEF Install
  <2>2. [name |-> "InstallTask", id |-> a, verify |-> v, pwa |-> w, cleans |-> NoPlace] \in Command
    BY <1>0 DEF Command
  <2>3. t \in Task /\ deferred \in Seq(DeferredCall)
    BY DEF FreeTasks, TypeOK
  <2> QED BY <2>1, <2>2, <2>3, CreateTaskType
<1>2. ASSUME NEW a \in AppId, NEW v \in BOOLEAN, Remove(a, v)
      PROVE  TypeOK'
  <2>1. PICK t \in FreeTasks :
            CreateTask(t, [name |-> "RemoveTask", id |-> a, verify |-> v, pwa |-> FALSE,
                           cleans |-> NoPlace], deferred)
    BY <1>2 DEF Remove
  <2>2. [name |-> "RemoveTask", id |-> a, verify |-> v, pwa |-> FALSE, cleans |-> NoPlace] \in Command
    BY <1>0 DEF Command
  <2>3. t \in Task /\ deferred \in Seq(DeferredCall)
    BY DEF FreeTasks, TypeOK
  <2> QED BY <2>1, <2>2, <2>3, CreateTaskType
<1>3. CASE ReleaseTask
  <2> DEFINE t == mapTask[Head(deferred).id]
  <2>1. deferred' \in Seq(DeferredCall)
    BY <1>3, HeadType DEF ReleaseTask
  <2>2. Destroy(t) \/ UNCHANGED <<cmd, taskVars>>
    BY <1>3 DEF ReleaseTask
  <2>3. mapTask' \in [AppId -> Task \cup {NoTask}]
    BY <1>3 DEF ReleaseTask, TypeOK
  <2> QED BY <1>3, <2>1, <2>2, <2>3, DestroyType DEF ReleaseTask, TypeOK, loopVars, envVars
<1>4. CASE Rollback
  <2> DEFINE d == Head(deferred)
             c == [name |-> "RemoveTask", id |-> d.id, verify |-> d.verify, pwa |-> FALSE,
                   cleans |-> d.unpacked]
  <2>1. deferred # <<>> /\ d.call = "rollback"
    BY <1>4 DEF Rollback
  <2>2. Tail(deferred) \in Seq(DeferredCall) /\ d.id \in AppId /\ d.verify \in BOOLEAN
        /\ d.unpacked \in AnyPlace
    BY <2>1, HeadType
  <2>3. CASE Known(d.id)
    BY <1>4, <2>2, <2>3 DEF Rollback, TypeOK, taskVars, loopVars, envVars
  <2>4. CASE ~Known(d.id)
    <3>1. PICK t \in FreeTasks : CreateTask(t, c, Tail(deferred))
      BY <1>4, <2>4 DEF Rollback
    <3>2. c \in Command
      BY <2>2 DEF Command
    <3>3. t \in Task
      BY DEF FreeTasks
    <3> QED BY <2>2, <3>1, <3>2, <3>3, CreateTaskType
  <2> QED BY <2>3, <2>4
<1>5. CASE DeferredProceed
  <2>1. deferred # <<>> /\ Proceed(Head(deferred).task) /\ deferred' = Tail(deferred)
    BY <1>5 DEF DeferredProceed
  <2>2. LoopType'
    BY <2>1, HeadType, FrameType
  <2> QED BY <1>5, <2>1, <2>2, HeadType DEF DeferredProceed, TypeOK, LoopType, taskVars, envVars
<1>6. CASE DeferredServiceFailed
  <2> DEFINE t == Head(deferred).task
  <2>1. deferred # <<>> /\ Proceed(t) /\ SetError(t, "ErrorInstall") /\ deferred' = Tail(deferred)
    BY <1>6 DEF DeferredServiceFailed
  <2>2. LoopType' /\ deferred' \in Seq(DeferredCall)
    BY <2>1, HeadType, FrameType
  <2>3. step' \in [Task -> TaskStep] /\ error' \in [Task -> BOOLEAN]
    BY <2>1, SetStepType, StepNames
  <2> QED BY <1>6, <2>2, <2>3 DEF DeferredServiceFailed, TypeOK, LoopType, envVars
<1>7. CASE DeferredJailFailed
  <2> DEFINE t == Head(deferred).task
  <2>1. /\ deferred # <<>> /\ Proceed(t) /\ SetStep(t, "RemoveJailComplete")
        /\ deferred' = Tail(deferred)
    BY <1>7 DEF DeferredJailFailed
  <2>2. LoopType' /\ deferred' \in Seq(DeferredCall)
    BY <2>1, HeadType, FrameType
  <2>3. step' \in [Task -> TaskStep]
    BY <2>1, SetStepType, StepNames
  <2> QED BY <1>7, <2>2, <2>3 DEF DeferredJailFailed, TypeOK, LoopType, envVars
<1> QED BY <1>1, <1>2, <1>3, <1>4, <1>5, <1>6, <1>7 DEF Client, Deferred

LEMMA AppendType ==
    ASSUME TypeOK, ConstantsAssumption, NEW t \in Task, NEW c \in TaskCalls
    PROVE  Append(deferred, TaskCall(c, t)) \in Seq(DeferredCall)
BY DEF TypeOK, DeferredCall

\* The call stack of a callback.
LEMMA UnwindType ==
    ASSUME TypeOK, ConstantsAssumption, StepTablesAssumption, NEW t \in Task, Unwind(t)
    PROVE  TypeOK'
<1>1. CASE ProceedToStage(t)
  <2> DEFINE next == StepTable(t)[step[t]]
  <2>1. next \in TaskStep
    BY <1>1 DEF ProceedToStage, StepTable, StepTablesAssumption, IsStepTable
  <2>2. step' \in [Task -> TaskStep]
    BY <1>1, <2>1, SetStepType DEF ProceedToStage
  <2> QED BY <1>1, <2>2 DEF ProceedToStage, TypeOK, envVars
<1>2. CASE ProceedToEnd(t)
  <2>1. LoopType'
    BY <1>2, FrameType DEF ProceedToEnd
  <2> QED BY <1>2, <2>1 DEF ProceedToEnd, TypeOK, LoopType, taskVars, envVars
<1>3. CASE ProceedFinished(t)
  <2>1. LoopType'
    BY <1>3, FrameType DEF ProceedFinished
  <2>2. Destroy(t) \/ UNCHANGED <<cmd, taskVars>>
    BY <1>3 DEF ProceedFinished
  <2> QED BY <1>3, <2>1, <2>2, DestroyType DEF ProceedFinished, TypeOK, LoopType, envVars
<1>4. CASE FinishTask(t)
  <2>1. LoopType'
    BY <1>4, FrameType DEF FinishTask
  <2>2. FinishCalls(t) \in Seq(DeferredCall)
    <3>1. ReleaseCall(cmd[t].id) \in DeferredCall
      BY PlaceType DEF DeferredCall
    <3>2. NeedsRollback(t) => RollbackCall(cmd[t].id, cmd[t].verify, PlaceOf(t)) \in DeferredCall
      BY PlaceType DEF NeedsRollback, DeferredCall
    <3> QED BY <3>1, <3>2 DEF FinishCalls
  <2>3. deferred' \in Seq(DeferredCall)
    BY <1>4, <2>2 DEF FinishTask, TypeOK
  <2>4. appLock' \subseteq Package /\ finished' \in [Task -> BOOLEAN]
    BY <1>4 DEF FinishTask, TypeOK
  <2> QED BY <1>4, <2>1, <2>3, <2>4 DEF FinishTask, TypeOK, LoopType
<1>5. CASE FinishAgain(t)
  <2>1. LoopType'
    BY <1>5, FrameType DEF FinishAgain
  <2> QED BY <1>5, <2>1 DEF FinishAgain, TypeOK, LoopType, taskVars, envVars
<1>6. CASE ReportServiceFailure(t)
  <2>1. LoopType'
    BY <1>6, FrameType DEF ReportServiceFailure
  <2>2. step' \in [Task -> TaskStep] /\ error' \in [Task -> BOOLEAN]
    BY <1>6, SetStepType, StepNames DEF ReportServiceFailure
  <2> QED BY <1>6, <2>1, <2>2 DEF ReportServiceFailure, TypeOK, LoopType, envVars
<1> QED BY <1>1, <1>2, <1>3, <1>4, <1>5, <1>6 DEF Unwind

Disk == [Place -> {"absent", "package", "copy", "partial"}]

\* What opkg, a copy, or the removal of an app's directories leaves on the disk.
LEMMA DiskType ==
    ASSUME TypeOK
    PROVE  /\ \A p : \A s \in {"absent", "package", "copy", "partial"} :
                  PutOnDisk(p, s) => disk' \in Disk
           /\ \A t : RemoveAppDirs(t) => disk' \in Disk
<1>1. disk \in Disk
  BY DEF TypeOK, Disk
<1>2. ASSUME NEW p, NEW s \in {"absent", "package", "copy", "partial"}, PutOnDisk(p, s)
      PROVE  disk' \in Disk
  BY <1>1, <1>2 DEF PutOnDisk, Disk
<1>3. ASSUME NEW t, RemoveAppDirs(t) PROVE disk' \in Disk
  BY <1>1, <1>3 DEF RemoveAppDirs, Disk
<1> QED BY <1>2, <1>3

\* The steps' proceed.
LEMMA StepType ==
    ASSUME TypeOK, ConstantsAssumption, NEW t \in Task, Step(t)
    PROVE  TypeOK'
<1>1. CASE StartIpkParse(t)
  <2>1. LoopType'
    BY <1>1, FrameType DEF StartIpkParse, Sent
  <2>2. step' \in [Task -> TaskStep] /\ error' \in [Task -> BOOLEAN]
    BY <1>1, SetStepType, StepNames DEF StartIpkParse, Sent, TypeOK
  <2>3. waiting' \in [Task -> Waits]
    BY <1>1, AwaitType DEF StartIpkParse, Sent, TypeOK, Waits
  <2> QED BY <1>1, <2>1, <2>2, <2>3 DEF StartIpkParse, Sent, TypeOK, LoopType, envVars
<1>2. CASE StartGetIpkInfo(t)
  <2>1. LoopType'
    BY <1>2, FrameType DEF StartGetIpkInfo, Sent
  <2>2. step' \in [Task -> TaskStep] /\ error' \in [Task -> BOOLEAN]
    BY <1>2, SetStepType, StepNames DEF StartGetIpkInfo, Sent, TypeOK
  <2>3. waiting' \in [Task -> Waits]
    BY <1>2, AwaitType DEF StartGetIpkInfo, Sent, TypeOK, Waits
  <2> QED BY <1>2, <2>1, <2>2, <2>3 DEF StartGetIpkInfo, Sent, TypeOK, LoopType, envVars
<1>3. CASE StartAppClose(t)
  <2>1. LoopType'
    BY <1>3, FrameType DEF StartAppClose, Sent
  <2>2. step' \in [Task -> TaskStep] /\ error' \in [Task -> BOOLEAN]
    BY <1>3, SetStepType, StepNames DEF StartAppClose, Sent, TypeOK, ErrorOf
  <2>3. waiting' \in [Task -> Waits]
    BY <1>3, AwaitType DEF StartAppClose, Sent, TypeOK, Waits
  <2> QED BY <1>3, <2>1, <2>2, <2>3 DEF StartAppClose, Sent, TypeOK, LoopType, envVars
<1>4. CASE StartIpkInstall(t)
  <2>1. LoopType'
    BY <1>4, FrameType DEF StartIpkInstall, Sent, Spawn, NotSpawned
  <2>2. step' \in [Task -> TaskStep] /\ error' \in [Task -> BOOLEAN]
    BY <1>4, SetStepType, StepNames DEF StartIpkInstall, Sent, Spawn, NotSpawned, TypeOK
  <2>3. waiting' \in [Task -> Waits]
    BY <1>4, AwaitType DEF StartIpkInstall, Sent, Spawn, NotSpawned, TypeOK, Waits
  <2> QED BY <1>4, <2>1, <2>2, <2>3 DEF StartIpkInstall, Sent, Spawn, NotSpawned, TypeOK, LoopType, envVars
<1>5. CASE StartUnpackagedInstall(t)
  <2>1. LoopType'
    BY <1>5, FrameType DEF StartUnpackagedInstall
  <2>2. step' \in [Task -> TaskStep] /\ error' \in [Task -> BOOLEAN]
    BY <1>5, SetStepType, StepNames DEF StartUnpackagedInstall, TypeOK
  <2>3. disk' \in Disk
    BY <1>5, DiskType DEF StartUnpackagedInstall, TypeOK, Disk
  <2> QED BY <1>5, <2>1, <2>2, <2>3 DEF StartUnpackagedInstall, TypeOK, LoopType, Disk
<1>6. CASE StartServiceInstall(t)
  <2>1. LoopType'
    BY <1>6, FrameType DEF StartServiceInstall, Sent
  <2>2. step' \in [Task -> TaskStep] /\ error' \in [Task -> BOOLEAN]
    BY <1>6, SetStepType, StepNames DEF StartServiceInstall, Sent, TypeOK
  <2>3. waiting' \in [Task -> Waits]
    BY <1>6, AwaitType DEF StartServiceInstall, Sent, TypeOK, Waits
  <2>4. Append(deferred, TaskCall("serviceFailed", t)) \in Seq(DeferredCall)
    BY AppendType DEF TaskCalls
  <2>5. deferred' \in Seq(DeferredCall)
    BY <1>6, <2>4 DEF StartServiceInstall, Sent, TypeOK
  <2> QED BY <1>6, <2>1, <2>2, <2>3, <2>5 DEF StartServiceInstall, Sent, TypeOK, LoopType, envVars
<1>7. CASE StartInstallSmack(t)
  <2>1. LoopType'
    BY <1>7, FrameType DEF StartInstallSmack
  <2>2. step' \in [Task -> TaskStep] /\ error' \in [Task -> BOOLEAN]
    BY <1>7, SetStepType, StepNames DEF StartInstallSmack, TypeOK
  <2> QED BY <1>7, <2>1, <2>2 DEF StartInstallSmack, TypeOK, LoopType, envVars
<1>8. CASE StartRemove(t)
  <2>1. LoopType'
    BY <1>8, FrameType DEF StartRemove
  <2>2. step' \in [Task -> TaskStep] /\ error' \in [Task -> BOOLEAN]
    BY <1>8, SetStepType, StepNames DEF StartRemove, TypeOK
  <2>3. Append(deferred, TaskCall("proceed", t)) \in Seq(DeferredCall)
    BY AppendType DEF TaskCalls
  <2>4. deferred' \in Seq(DeferredCall)
    BY <1>8, <2>3 DEF StartRemove, TypeOK
  <2> QED BY <1>8, <2>1, <2>2, <2>4 DEF StartRemove, TypeOK, LoopType, envVars
<1>9. CASE StartRemoveJail(t)
  <2>1. LoopType'
    BY <1>9, FrameType DEF StartRemoveJail
  <2>2. step' \in [Task -> TaskStep] /\ error' \in [Task -> BOOLEAN]
    BY <1>9, SetStepType, StepNames DEF StartRemoveJail, TypeOK
  <2>3. waiting' \in [Task -> Waits]
    BY <1>9, AwaitType DEF StartRemoveJail, TypeOK, Waits
  <2>4. Append(deferred, TaskCall("jailFailed", t)) \in Seq(DeferredCall)
    BY AppendType DEF TaskCalls
  <2>5. deferred' \in Seq(DeferredCall)
    BY <1>9, <2>4 DEF StartRemoveJail, TypeOK
  <2> QED BY <1>9, <2>1, <2>2, <2>3, <2>5 DEF StartRemoveJail, TypeOK, LoopType, envVars
<1>10. CASE StartRemoveSmack(t)
  <2>1. LoopType'
    BY <1>10, FrameType DEF StartRemoveSmack
  <2>2. step' \in [Task -> TaskStep] /\ error' \in [Task -> BOOLEAN]
    BY <1>10, SetStepType, StepNames DEF StartRemoveSmack, TypeOK
  <2> QED BY <1>10, <2>1, <2>2 DEF StartRemoveSmack, TypeOK, LoopType, envVars
<1>11. CASE StartServiceUninstall(t)
  <2>1. LoopType'
    BY <1>11, FrameType DEF StartServiceUninstall, Sent, LoopType
  <2>2. step' \in [Task -> TaskStep] /\ error' \in [Task -> BOOLEAN]
    BY <1>11, SetStepType, StepNames DEF StartServiceUninstall, Sent, TypeOK
  <2>3. waiting' \in [Task -> Waits]
    BY <1>11, AwaitType DEF StartServiceUninstall, Sent, TypeOK, Waits
  <2> QED BY <1>11, <2>1, <2>2, <2>3 DEF StartServiceUninstall, Sent, TypeOK, LoopType, envVars
<1>12. CASE StartIpkRemove(t)
  <2>1. LoopType'
    BY <1>12, FrameType DEF StartIpkRemove, Sent, Spawn
  <2>2. step' \in [Task -> TaskStep] /\ error' \in [Task -> BOOLEAN]
    BY <1>12, SetStepType, StepNames DEF StartIpkRemove, Sent, Spawn, TypeOK
  <2>3. waiting' \in [Task -> Waits]
    BY <1>12, AwaitType DEF StartIpkRemove, Sent, Spawn, TypeOK, Waits
  <2> QED BY <1>12, <2>1, <2>2, <2>3 DEF StartIpkRemove, Sent, Spawn, TypeOK, LoopType, envVars
<1>13. CASE StartDataRemove(t)
  <2>1. LoopType'
    BY <1>13, FrameType DEF StartDataRemove, Sent
  <2>2. step' \in [Task -> TaskStep] /\ error' \in [Task -> BOOLEAN]
    BY <1>13, SetStepType, StepNames DEF StartDataRemove, Sent, TypeOK
  <2>3. waiting' \in [Task -> Waits]
    BY <1>13, AwaitType DEF StartDataRemove, Sent, TypeOK, Waits
  <2>4. disk' \in Disk /\ UNCHANGED <<orphans, appLock, crashes>>
    BY <1>13, DiskType DEF StartDataRemove, RemoveAppDirs, envVars, TypeOK, Disk
  <2> QED BY <1>13, <2>1, <2>2, <2>3, <2>4 DEF StartDataRemove, Sent, TypeOK, LoopType, Disk
<1> QED BY <1>1, <1>2, <1>3, <1>4, <1>5, <1>6, <1>7, <1>8, <1>9, <1>10, <1>11, <1>12, <1>13 DEF Step

\* The exits and the output of children.
LEMMA ChildType ==
    ASSUME TypeOK, ConstantsAssumption, NEW t \in Task, Child(t)
    PROVE  TypeOK'
<1>1. CASE OnPackageExtracted(t)
  <2>1. LoopType'
    BY <1>1, FrameType DEF OnPackageExtracted
  <2>2. step' \in [Task -> TaskStep] /\ error' \in [Task -> BOOLEAN]
    BY <1>1, SetStepType, StepNames DEF OnPackageExtracted, TypeOK
  <2>3. waiting' \in [Task -> Waits]
    BY <1>1, AwaitType DEF OnPackageExtracted, TypeOK, Waits
  <2>4. pkg' \in [Task -> Package]
    BY <1>1 DEF OnPackageExtracted, TypeOK, Package
  <2> QED BY <1>1, <2>1, <2>2, <2>3, <2>4 DEF OnPackageExtracted, TypeOK, LoopType, envVars
<1>2. CASE InstallProgress(t)
  <2>1. LoopType'
    BY <1>2, FrameType DEF InstallProgress
  <2>2. step' \in [Task -> TaskStep] /\ error' \in [Task -> BOOLEAN]
    BY <1>2, SetStepType, StepNames DEF InstallProgress, TypeOK, ReportedSteps
  <2>3. unpacked' \in [Task -> BOOLEAN]
    BY <1>2 DEF InstallProgress, TypeOK
  <2> QED BY <1>2, <2>1, <2>2, <2>3 DEF InstallProgress, TypeOK, LoopType, envVars
<1>3. CASE OnIpkInstalled(t)
  <2>1. LoopType'
    BY <1>3, FrameType DEF OnIpkInstalled
  <2>2. step' \in [Task -> TaskStep] /\ error' \in [Task -> BOOLEAN]
    BY <1>3, SetStepType, StepNames DEF OnIpkInstalled, TypeOK, OpkgFailed
  <2>3. waiting' \in [Task -> Waits]
    BY <1>3, AwaitType DEF OnIpkInstalled, TypeOK, Waits
  <2>4. disk' \in Disk
    BY <1>3, DiskType DEF OnIpkInstalled, NothingDone, HalfDone, TypeOK, Disk
  <2> QED BY <1>3, <2>1, <2>2, <2>3, <2>4 DEF OnIpkInstalled, TypeOK, LoopType, Disk
<1>4. CASE OnRemoveJail(t)
  <2>1. LoopType'
    BY <1>4, FrameType DEF OnRemoveJail
  <2>2. step' \in [Task -> TaskStep] /\ error' \in [Task -> BOOLEAN]
    BY <1>4, SetStepType, StepNames DEF OnRemoveJail, TypeOK
  <2>3. waiting' \in [Task -> Waits]
    BY <1>4, AwaitType DEF OnRemoveJail, TypeOK, Waits
  <2> QED BY <1>4, <2>1, <2>2, <2>3 DEF OnRemoveJail, TypeOK, LoopType, envVars
<1>5. CASE OnIpkRemoved(t)
  <2>1. LoopType'
    BY <1>5, FrameType DEF OnIpkRemoved
  <2>2. step' \in [Task -> TaskStep] /\ error' \in [Task -> BOOLEAN]
    BY <1>5, SetStepType, StepNames DEF OnIpkRemoved, TypeOK, RemovedStep
  <2>3. waiting' \in [Task -> Waits]
    BY <1>5, AwaitType DEF OnIpkRemoved, TypeOK, Waits
  <2>4. disk' \in Disk
    BY <1>5, DiskType DEF OnIpkRemoved, NothingDone, HalfDone, PackageRemoved, PackageUnknown, TypeOK, Disk
  <2> QED BY <1>5, <2>1, <2>2, <2>3, <2>4 DEF OnIpkRemoved, TypeOK, LoopType, Disk
<1> QED BY <1>1, <1>2, <1>3, <1>4, <1>5 DEF Child, Exit

\* The replies of services.
LEMMA ReplyType ==
    ASSUME TypeOK, ConstantsAssumption, NEW t \in Task, Reply(t)
    PROVE  TypeOK'
<1>1. CASE OnAppInfo(t)
  <2>1. LoopType'
    BY <1>1, FrameType DEF OnAppInfo
  <2>2. step' \in [Task -> TaskStep] /\ error' \in [Task -> BOOLEAN]
    BY <1>1, SetStepType, StepNames DEF OnAppInfo, TypeOK
  <2>3. waiting' \in [Task -> Waits]
    BY <1>1, AwaitType DEF OnAppInfo, TypeOK, Waits
  <2> QED BY <1>1, <2>1, <2>2, <2>3 DEF OnAppInfo, TypeOK, LoopType, envVars
<1>2. CASE OnCloseInfo(t)
  <2>1. LoopType'
    BY <1>2, FrameType DEF OnCloseInfo, CloseGoesOn, CloseFails
  <2>2. step' \in [Task -> TaskStep] /\ error' \in [Task -> BOOLEAN]
    BY <1>2, SetStepType, StepNames DEF OnCloseInfo, CloseGoesOn, CloseFails, TypeOK, ErrorOf
  <2>3. waiting' \in [Task -> Waits]
    BY <1>2, AwaitType DEF OnCloseInfo, CloseGoesOn, CloseFails, TypeOK, Waits
  <2> QED BY <1>2, <2>1, <2>2, <2>3 DEF OnCloseInfo, CloseGoesOn, CloseFails, TypeOK, LoopType, envVars
<1>3. CASE OnCloseLock(t)
  <2>1. LoopType'
    BY <1>3, FrameType DEF OnCloseLock, CloseGoesOn, CloseFails
  <2>2. step' \in [Task -> TaskStep] /\ error' \in [Task -> BOOLEAN]
    BY <1>3, SetStepType, StepNames DEF OnCloseLock, CloseGoesOn, CloseFails, TypeOK, ErrorOf
  <2>3. waiting' \in [Task -> Waits]
    BY <1>3, AwaitType DEF OnCloseLock, CloseGoesOn, CloseFails, TypeOK, Waits
  <2> QED BY <1>3, <2>1, <2>2, <2>3 DEF OnCloseLock, CloseGoesOn, CloseFails, TypeOK, LoopType, envVars
<1>4. CASE OnAppClosed(t)
  <2>1. LoopType'
    BY <1>4, FrameType DEF OnAppClosed, CloseFails
  <2>2. step' \in [Task -> TaskStep] /\ error' \in [Task -> BOOLEAN]
    BY <1>4, SetStepType, StepNames DEF OnAppClosed, CloseFails, TypeOK, ErrorOf
  <2>3. waiting' \in [Task -> Waits]
    BY <1>4, AwaitType DEF OnAppClosed, CloseFails, TypeOK, Waits
  <2> QED BY <1>4, <2>1, <2>2, <2>3 DEF OnAppClosed, CloseFails, TypeOK, LoopType, envVars
<1>5. CASE OnServiceInstalled(t)
  <2>1. LoopType'
    BY <1>5, FrameType DEF OnServiceInstalled
  <2>2. step' \in [Task -> TaskStep] /\ error' \in [Task -> BOOLEAN]
    BY <1>5, SetStepType, StepNames DEF OnServiceInstalled, TypeOK
  <2>3. waiting' \in [Task -> Waits]
    BY <1>5, AwaitType DEF OnServiceInstalled, TypeOK, Waits
  <2> QED BY <1>5, <2>1, <2>2, <2>3 DEF OnServiceInstalled, TypeOK, LoopType, envVars
<1>6. CASE OnServiceUninstalled(t)
  <2>1. LoopType'
    BY <1>6, FrameType DEF OnServiceUninstalled
  <2>2. step' \in [Task -> TaskStep] /\ error' \in [Task -> BOOLEAN]
    BY <1>6, SetStepType, StepNames DEF OnServiceUninstalled, TypeOK
  <2>3. waiting' \in [Task -> Waits]
    BY <1>6, AwaitType DEF OnServiceUninstalled, TypeOK, Waits
  <2> QED BY <1>6, <2>1, <2>2, <2>3 DEF OnServiceUninstalled, TypeOK, LoopType, envVars
<1>7. CASE OnDataRemoved(t)
  <2>1. LoopType'
    BY <1>7, FrameType DEF OnDataRemoved
  <2>2. step' \in [Task -> TaskStep] /\ error' \in [Task -> BOOLEAN]
    BY <1>7, SetStepType, StepNames DEF OnDataRemoved, TypeOK
  <2>3. waiting' \in [Task -> Waits]
    BY <1>7, AwaitType DEF OnDataRemoved, TypeOK, Waits
  <2>4. disk' \in Disk /\ UNCHANGED <<orphans, appLock, crashes>>
    BY <1>7, DiskType DEF OnDataRemoved, RemoveAppDirs
  <2> QED BY <1>7, <2>1, <2>2, <2>3, <2>4 DEF OnDataRemoved, TypeOK, LoopType, Disk
<1> QED BY <1>1, <1>2, <1>3, <1>4, <1>5, <1>6, <1>7 DEF Reply

\* Crashes, and what they leave behind.
LEMMA CrashType ==
    ASSUME TypeOK, ConstantsAssumption, Crash \/ \E p \in Place : OrphanExits(p)
    PROVE  TypeOK'
<1>1. CASE Crash
  <2>1. "Unknown" \in TaskStep /\ NoApp \in Package /\ "none" \in Waits
    BY StepNames DEF Package, Waits
  <2>2. orphans' \subseteq AnyPlace
    BY <1>1, PlaceType DEF Crash, TypeOK
  <2>3. crashes' \in 0 .. MaxCrashes
    BY <1>1 DEF Crash, TypeOK, ConstantsAssumption
  <2>4. deferred' \in Seq(DeferredCall)
    BY <1>1 DEF Crash
  <2> QED BY <1>1, <2>1, <2>2, <2>3, <2>4 DEF Crash, TypeOK
<1>2. ASSUME NEW p \in Place, OrphanExits(p)
      PROVE  TypeOK'
  <2>1. disk' \in Disk
    BY <1>2, DiskType DEF OrphanExits, NothingDone, HalfDone, PackageRemoved, TypeOK, Disk
  <2> QED BY <1>2, <2>1 DEF OrphanExits, TypeOK, taskVars, loopVars, Disk
<1> QED BY <1>1, <1>2

(***************************************************************************)
(* Every variable keeps its type, whatever the step tables say and whether *)
(* or not calls can be sent: no interleaving stores a status that is none, *)
(* or defers a call for something that is no task.                         *)
(***************************************************************************)
THEOREM TypeCorrect == Spec => []TypeOK
<1> USE ConstantsAssumption, StepTablesAssumption
<1>1. Init => TypeOK
  BY InitType
<1>2. TypeOK /\ [Next]_vars => TypeOK'
  <2> SUFFICES ASSUME TypeOK, [Next]_vars PROVE TypeOK'
    OBVIOUS
  <2>1. CASE Client \/ Deferred
    BY <2>1, LoopStepType
  <2>2. ASSUME NEW t \in Task, Unwind(t) \/ Step(t) \/ Child(t) \/ Reply(t)
        PROVE  TypeOK'
    BY <2>2, UnwindType, StepType, ChildType, ReplyType
  <2>3. CASE Crash \/ \E p \in Place : OrphanExits(p)
    BY <2>3, CrashType
  <2>4. CASE UNCHANGED vars
    BY <2>4 DEF vars, TypeOK, taskVars, loopVars, envVars
  <2> QED BY <2>1, <2>2, <2>3, <2>4 DEF Next
<1> QED BY <1>1, <1>2, PTL DEF Spec

---------------------------------------------------------------------------
(* Who goes on with a command.                                             *)

\* The statuses with which an outer frame may still have something to do: a stage whose
\* call could not be sent, what comes after it on the same stack, and errors.
NestedSteps ==
    ErrorSteps \cup
    {"GetIpkInfoNeeded", "GetIpkInfoComplete", "AppCloseNeeded",
     "ServiceUninstallComplete", "IpkRemoveNeeded", "DataRemoveComplete"}

(***************************************************************************)
(* The parts of the invariant.  The frames on the stack belong to one      *)
(* command, which waits for nothing before its stage has ended.            *)
(***************************************************************************)
FramesOK ==
    /\ call = "none" <=> current = NoTask
    /\ current # NoTask => cmd[current] # NoCommand
    /\ call = "none" => unwind = "none"
    /\ call = "step" => ~finished[current]
    /\ call \in {"proceed", "step"} => waiting[current] = "none"
    /\ call \in {"proceed", "step"} /\ unwind # "none" =>
           ~finished[current] /\ step[current] \in NestedSteps

\* An object that the map has dropped while something was still to be called back.
Stray(t) == finished[t] /\ (waiting[t] # "none" \/ (current = t /\ call = "proceed"))

\* The map and the commands agree, but for the strays.
EntriesOK ==
    /\ \A a \in AppId : Known(a) => cmd[mapTask[a]] # NoCommand /\ cmd[mapTask[a]].id = a
    /\ \A t \in Task : cmd[t] # NoCommand =>
           cmd[t].id \in AppId /\ (mapTask[cmd[t].id] = t \/ Stray(t))
    /\ \A t \in Task : finished[t] \/ waiting[t] # "none" => cmd[t] # NoCommand

\* A deferred call is for a command that has not ended and that nothing else continues.
CallsAreForLive ==
    \A t \in Task :
        /\ IsDeferred(t) => Live(t) /\ waiting[t] = "none" /\ current # t
        /\ DeferredOnce(t)

\* What has not ended is continued.
Carried(t) == current = t \/ waiting[t] # "none" \/ IsDeferred(t)
LiveAreCarried == \A t \in Task : Live(t) => Carried(t)

ReleasesAnId == ~IsReleased(NoApp)

(***************************************************************************)
(* How it is while calls can be sent: no frame goes on after the end of    *)
(* its command, one that will finish it is only below one that ends it     *)
(* anyway, and a command that has ended waits for nothing.                 *)
(***************************************************************************)
Orderly ==
    /\ call # "report" /\ unwind # "report"
    /\ call \in {"proceed", "step"} => ~finished[current]
    /\ call = "step" => unwind = "none"
    /\ call = "proceed" /\ unwind = "finish" => step[current] \in ErrorSteps
    /\ \A t \in Task : waiting[t] # "none" => ~finished[t] /\ current # t

IInv ==
    /\ TypeOK
    /\ FramesOK
    /\ EntriesOK
    /\ CallsAreForLive
    /\ LiveAreCarried
    /\ ReleasesAnId
    /\ ReleaseOwed
    /\ ~SendMayFail => Orderly

\* What the steps and the callbacks do to the bookkeeping, whatever else they do.
Quiet == UNCHANGED <<mapTask, cmd, finished>>

Dispatched(t) ==
    /\ call = "none" /\ waiting[t] # "none"
    /\ Await(t, "none") /\ Proceed(t) /\ UNCHANGED deferred

StillWaits(t) ==
    /\ call = "none" /\ waiting[t] # "none"
    /\ \E w \in Waits \ {"none"} : Await(t, w)
    /\ UNCHANGED <<loopVars, deferred>>

InStep(t) == call = "step" /\ current = t

Suspended(t) ==
    /\ InStep(t)
    /\ \E w \in Waits \ {"none"} : Await(t, w)
    /\ Return /\ UNCHANGED deferred

GoesOnLater(t) ==
    /\ InStep(t) /\ unwind = "none"
    /\ \E c \in TaskCalls : deferred' = Append(deferred, TaskCall(c, t))
    /\ Return /\ UNCHANGED waiting

GoesOn(t) ==
    /\ InStep(t) /\ (unwind # "none" => step'[t] \in NestedSteps)
    /\ Proceed(t) /\ UNCHANGED <<waiting, deferred>>

GoesOnThenFails(t) ==
    /\ InStep(t) /\ step'[t] \in NestedSteps
    /\ call' = "proceed" /\ current' = t /\ unwind' \in {"finish", "report"}
    /\ SendMayFail \/ (unwind' = "finish" /\ step'[t] \in ErrorSteps)
    /\ UNCHANGED <<waiting, deferred>>

Fails(t) == InStep(t) /\ Fail /\ UNCHANGED <<waiting, deferred>>

Move(t) ==
    \/ Dispatched(t) \/ StillWaits(t) \/ Suspended(t) \/ GoesOnLater(t)
    \/ GoesOn(t) \/ GoesOnThenFails(t) \/ Fails(t)

\* A step's proceed suspends the command, goes on with it or fails.
LEMMA StepMoves ==
    ASSUME IInv, NEW t \in Task, Step(t)
    PROVE  Quiet /\ Move(t)
<1>0. /\ call = "step" /\ current = t /\ ~finished[t]
      /\ step \in [Task -> TaskStep]
      /\ unwind # "none" => step[t] \in NestedSteps
  BY DEF IInv, TypeOK, FramesOK, Step, Starting, StartIpkParse, StartGetIpkInfo, StartAppClose,
         StartIpkInstall, StartUnpackagedInstall, StartServiceInstall, StartInstallSmack,
         StartRemove, StartRemoveJail, StartRemoveSmack, StartServiceUninstall, StartIpkRemove,
         StartDataRemove
<1> USE <1>0
<1> USE DEF Quiet, Move, Suspended, GoesOnLater, GoesOn, GoesOnThenFails, Fails, InStep, NestedSteps
<1> USE DEF Starting, Sent, Spawn, NotSpawned, Await, Waits, SetError, SetStep, ErrorSteps, ErrorOf,
            ProceedThenFail, TaskCalls, taskVars, envVars
<1>1. CASE StartIpkParse(t)
  BY <1>1 DEF StartIpkParse
<1>2. CASE StartGetIpkInfo(t)
  BY <1>2 DEF StartGetIpkInfo
<1>3. CASE StartAppClose(t)
  BY <1>3 DEF StartAppClose
<1>4. CASE StartIpkInstall(t)
  BY <1>4 DEF StartIpkInstall
<1>5. CASE StartUnpackagedInstall(t)
  BY <1>5 DEF StartUnpackagedInstall
<1>6. CASE StartServiceInstall(t)
  BY <1>6 DEF StartServiceInstall
<1>7. CASE StartInstallSmack(t)
  BY <1>7 DEF StartInstallSmack
<1>8. CASE StartRemove(t)
  BY <1>8 DEF StartRemove
<1>9. CASE StartRemoveJail(t)
  BY <1>9 DEF StartRemoveJail
<1>10. CASE StartRemoveSmack(t)
  BY <1>10 DEF StartRemoveSmack
<1>11. CASE StartServiceUninstall(t)
  BY <1>11 DEF StartServiceUninstall
<1>12. CASE StartIpkRemove(t)
  BY <1>12 DEF StartIpkRemove
<1>13. CASE StartDataRemove(t)
  BY <1>13 DEF StartDataRemove
<1> QED BY <1>1, <1>2, <1>3, <1>4, <1>5, <1>6, <1>7, <1>8, <1>9, <1>10, <1>11, <1>12, <1>13 DEF Step

\* A child's exit dispatches the command.
LEMMA ChildMoves ==
    ASSUME IInv, NEW t \in Task, Child(t)
    PROVE  Quiet /\ Move(t)
<1> USE DEF IInv, TypeOK, Quiet, Move, Dispatched, StillWaits
<1> USE DEF Receives, MayDispatch, AtRest, Await, Waits, CloseGoesOn, CloseFails, taskVars, envVars
<1>1. CASE OnPackageExtracted(t)
  BY <1>1 DEF OnPackageExtracted
<1>2. CASE InstallProgress(t)
  BY <1>2 DEF InstallProgress
<1>3. CASE OnIpkInstalled(t)
  BY <1>3 DEF OnIpkInstalled
<1>4. CASE OnRemoveJail(t)
  BY <1>4 DEF OnRemoveJail
<1>5. CASE OnIpkRemoved(t)
  BY <1>5 DEF OnIpkRemoved
<1> QED BY <1>1, <1>2, <1>3, <1>4, <1>5 DEF Child, Exit

\* So does a reply, or the chain goes on.
LEMMA ReplyMoves ==
    ASSUME NEW t \in Task, Reply(t)
    PROVE  Quiet /\ Move(t)
<1> USE DEF Quiet, Move, Dispatched, StillWaits
<1> USE DEF Receives, MayDispatch, AtRest, Await, Waits, CloseGoesOn, CloseFails, taskVars, envVars
<1>1. CASE OnAppInfo(t)
  BY <1>1 DEF OnAppInfo
<1>2. CASE OnCloseInfo(t)
  BY <1>2 DEF OnCloseInfo
<1>3. CASE OnCloseLock(t)
  BY <1>3 DEF OnCloseLock
<1>4. CASE OnAppClosed(t)
  BY <1>4 DEF OnAppClosed
<1>5. CASE OnServiceInstalled(t)
  BY <1>5 DEF OnServiceInstalled
<1>6. CASE OnServiceUninstalled(t)
  BY <1>6 DEF OnServiceUninstalled
<1>7. CASE OnDataRemoved(t)
  BY <1>7 DEF OnDataRemoved
<1> QED BY <1>1, <1>2, <1>3, <1>4, <1>5, <1>6, <1>7 DEF Reply

\* What one more deferred call means for the pending calls.
LEMMA TaskCallAppended ==
    ASSUME deferred \in Seq(DeferredCall), NEW c \in TaskCalls, NEW t \in Task,
           deferred' = Append(deferred, TaskCall(c, t))
    PROVE  /\ \A u \in Task : IsDeferred(u)' <=> IsDeferred(u) \/ u = t
           /\ \A u \in Task : DeferredOnce(u) /\ (u = t => ~IsDeferred(u)) => DeferredOnce(u)'
           /\ \A a \in Package : IsReleased(a)' <=> IsReleased(a)
           /\ \A a \in Package : ReleasedOnce(a) => ReleasedOnce(a)'
<1>1. /\ Len(deferred) \in Nat /\ DOMAIN deferred = 1 .. Len(deferred)
      /\ DOMAIN deferred' = 1 .. Len(deferred) + 1
      /\ \A k \in 1 .. Len(deferred) : deferred'[k] = deferred[k]
      /\ deferred'[Len(deferred) + 1] = TaskCall(c, t)
  OBVIOUS
<1>2. TaskCall(c, t).task = t /\ \A a \in Package : TaskCall(c, t) # ReleaseCall(a)
  <2>1. TaskCall(c, t).task = t /\ TaskCall(c, t).call = c
    BY DEF TaskCall
  <2>2. \A a \in Package : ReleaseCall(a).call = "release"
    BY DEF ReleaseCall
  <2> QED BY <2>1, <2>2 DEF TaskCalls
<1>3. ASSUME NEW u \in Task PROVE IsDeferred(u)' <=> IsDeferred(u) \/ u = t
  BY <1>1, <1>2 DEF IsDeferred
<1>4. ASSUME NEW u \in Task, DeferredOnce(u), u = t => ~IsDeferred(u) PROVE DeferredOnce(u)'
  BY <1>1, <1>2, <1>4 DEF IsDeferred, DeferredOnce
<1>5. ASSUME NEW a \in Package PROVE IsReleased(a)' <=> IsReleased(a)
  BY <1>1, <1>2 DEF IsReleased
<1>6. ASSUME NEW a \in Package, ReleasedOnce(a) PROVE ReleasedOnce(a)'
  BY <1>1, <1>2, <1>6 DEF ReleasedOnce
<1> QED BY <1>3, <1>4, <1>5, <1>6

\* What the call the loop makes next leaves pending.
LEMMA HeadTaken ==
    ASSUME deferred \in Seq(DeferredCall), deferred # <<>>, deferred' = Tail(deferred)
    PROVE  /\ \A u \in Task :
                  /\ IsDeferred(u)' => IsDeferred(u)
                  /\ IsDeferred(u) => IsDeferred(u)' \/ Head(deferred).task = u
                  /\ Head(deferred).task = u => IsDeferred(u)
                  /\ DeferredOnce(u) /\ Head(deferred).task = u => ~IsDeferred(u)'
                  /\ DeferredOnce(u) => DeferredOnce(u)'
           /\ \A a \in Package :
                  /\ IsReleased(a)' => IsReleased(a)
                  /\ IsReleased(a) => IsReleased(a)' \/ Head(deferred) = ReleaseCall(a)
                  /\ Head(deferred) = ReleaseCall(a) => IsReleased(a)
                  /\ ReleasedOnce(a) /\ Head(deferred) = ReleaseCall(a) => ~IsReleased(a)'
                  /\ ReleasedOnce(a) => ReleasedOnce(a)'
<1>1. /\ Len(deferred) \in Nat \ {0} /\ DOMAIN deferred = 1 .. Len(deferred)
      /\ DOMAIN deferred' = 1 .. Len(deferred) - 1
      /\ \A k \in 1 .. Len(deferred) - 1 : deferred'[k] = deferred[k + 1]
      /\ deferred[1] = Head(deferred)
  OBVIOUS
<1>2. \A k \in DOMAIN deferred : k = 1 \/ (k - 1 \in DOMAIN deferred' /\ deferred'[k - 1] = deferred[k])
  BY <1>1
<1>3. \A k \in DOMAIN deferred' : k + 1 \in DOMAIN deferred /\ k + 1 # 1 /\ deferred[k + 1] = deferred'[k]
  BY <1>1
<1>4. 1 \in DOMAIN deferred
  BY <1>1
<1>5. ASSUME NEW u \in Task
      PROVE  /\ IsDeferred(u)' => IsDeferred(u)
             /\ IsDeferred(u) => IsDeferred(u)' \/ Head(deferred).task = u
             /\ Head(deferred).task = u => IsDeferred(u)
  <2>1. IsDeferred(u)' => IsDeferred(u)
    BY <1>3 DEF IsDeferred
  <2>2. IsDeferred(u) => IsDeferred(u)' \/ Head(deferred).task = u
    BY <1>1, <1>2 DEF IsDeferred
  <2>3. Head(deferred).task = u => IsDeferred(u)
    BY <1>1, <1>4 DEF IsDeferred
  <2> QED BY <2>1, <2>2, <2>3
<1>6. ASSUME NEW u \in Task, DeferredOnce(u)
      PROVE  DeferredOnce(u)' /\ (Head(deferred).task = u => ~IsDeferred(u)')
  <2>1. DeferredOnce(u)'
    BY <1>1, <1>3, <1>6 DEF DeferredOnce
  <2>2. Head(deferred).task = u => ~IsDeferred(u)'
    BY <1>1, <1>3, <1>4, <1>6 DEF DeferredOnce, IsDeferred
  <2> QED BY <2>1, <2>2
<1>7. ASSUME NEW a \in Package
      PROVE  /\ IsReleased(a)' => IsReleased(a)
             /\ IsReleased(a) => IsReleased(a)' \/ Head(deferred) = ReleaseCall(a)
             /\ Head(deferred) = ReleaseCall(a) => IsReleased(a)
  <2>1. IsReleased(a)' => IsReleased(a)
    BY <1>3 DEF IsReleased
  <2>2. IsReleased(a) => IsReleased(a)' \/ Head(deferred) = ReleaseCall(a)
    BY <1>1, <1>2 DEF IsReleased
  <2>3. Head(deferred) = ReleaseCall(a) => IsReleased(a)
    BY <1>1, <1>4 DEF IsReleased
  <2> QED BY <2>1, <2>2, <2>3
<1>8. ASSUME NEW a \in Package, ReleasedOnce(a)
      PROVE  ReleasedOnce(a)' /\ (Head(deferred) = ReleaseCall(a) => ~IsReleased(a)')
  <2>1. ReleasedOnce(a)'
    BY <1>1, <1>3, <1>8 DEF ReleasedOnce
  <2>2. Head(deferred) = ReleaseCall(a) => ~IsReleased(a)'
    BY <1>1, <1>3, <1>4, <1>8 DEF ReleasedOnce, IsReleased
  <2> QED BY <2>1, <2>2
<1> QED BY <1>5, <1>6, <1>7, <1>8

LEMMA QueueUnchanged ==
    ASSUME UNCHANGED deferred
    PROVE  /\ \A u \in Task : (IsDeferred(u)' <=> IsDeferred(u)) /\ (DeferredOnce(u)' <=> DeferredOnce(u))
           /\ \A a \in Package : (IsReleased(a)' <=> IsReleased(a)) /\ (ReleasedOnce(a)' <=> ReleasedOnce(a))
BY DEF IsDeferred, DeferredOnce, IsReleased, ReleasedOnce

\* A rollback that is accepted turns into the first call of its command.
LEMMA RollbackReplaced ==
    ASSUME deferred \in Seq(DeferredCall), deferred # <<>>, ConstantsAssumption,
           Head(deferred).call = "rollback", NEW t \in Task,
           deferred' = Append(Tail(deferred), TaskCall("proceed", t))
    PROVE  /\ \A u \in Task : IsDeferred(u)' <=> IsDeferred(u) \/ u = t
           /\ \A u \in Task : DeferredOnce(u) /\ (u = t => ~IsDeferred(u)) => DeferredOnce(u)'
           /\ \A a \in Package : IsReleased(a)' <=> IsReleased(a)
           /\ \A a \in Package : ReleasedOnce(a) => ReleasedOnce(a)'
<1> DEFINE n == Len(deferred)
<1>1. /\ n \in Nat \ {0} /\ DOMAIN deferred = 1 .. n /\ DOMAIN deferred' = 1 .. n
      /\ \A k \in 1 .. n - 1 : deferred'[k] = deferred[k + 1]
      /\ deferred'[n] = TaskCall("proceed", t)
      /\ deferred[1] = Head(deferred) /\ Head(deferred) \in DeferredCall
  <2>1. n \in Nat \ {0} /\ DOMAIN deferred = 1 .. n
        /\ deferred[1] = Head(deferred) /\ Head(deferred) \in DeferredCall
    OBVIOUS
  <2>2. /\ Tail(deferred) \in Seq(DeferredCall) /\ Len(Tail(deferred)) = n - 1
        /\ \A k \in 1 .. n - 1 : Tail(deferred)[k] = deferred[k + 1]
    OBVIOUS
  <2> HIDE DEF n
  <2>3. DOMAIN deferred' = 1 .. n
    BY <2>1, <2>2
  <2>4. deferred'[n] = TaskCall("proceed", t)
    BY <2>1, <2>2
  <2>5. ASSUME NEW k \in 1 .. n - 1 PROVE deferred'[k] = deferred[k + 1]
    BY <2>1, <2>2
  <2> QED BY <2>1, <2>3, <2>4, <2>5
<1> HIDE DEF n
<1>2. TaskCall("proceed", t).task = t /\ \A a \in Package : TaskCall("proceed", t) # ReleaseCall(a)
  BY DEF TaskCall, ReleaseCall
<1>3. Head(deferred).task \notin Task /\ \A a \in Package : Head(deferred) # ReleaseCall(a)
  <2>1. \A d \in DeferredCall : d.call = "rollback" => d.task = NoTask
    BY DEF DeferredCall, TaskCall, ReleaseCall, RollbackCall, TaskCalls
  <2>2. \A a \in Package : ReleaseCall(a).call = "release"
    BY DEF ReleaseCall
  <2> QED BY <1>1, <2>1, <2>2 DEF ConstantsAssumption
<1>4. \A k \in 1 .. n : k = 1 \/ (k - 1 \in 1 .. n /\ k - 1 # n /\ deferred'[k - 1] = deferred[k])
  BY <1>1
<1>5. \A k \in 1 .. n : k = n \/ (k + 1 \in 1 .. n /\ k + 1 # 1 /\ deferred[k + 1] = deferred'[k])
  BY <1>1
<1>6. 1 \in 1 .. n /\ n \in 1 .. n
  BY <1>1
<1>7. ASSUME NEW u \in Task PROVE IsDeferred(u)' <=> IsDeferred(u) \/ u = t
  <2>1. IsDeferred(u)' => IsDeferred(u) \/ u = t
    BY <1>1, <1>2, <1>5 DEF IsDeferred
  <2>2. IsDeferred(u) => IsDeferred(u)'
    BY <1>1, <1>3, <1>4 DEF IsDeferred
  <2>3. IsDeferred(t)'
    BY <1>1, <1>2, <1>6 DEF IsDeferred
  <2> QED BY <2>1, <2>2, <2>3
<1>8. ASSUME NEW u \in Task, DeferredOnce(u), u = t => ~IsDeferred(u) PROVE DeferredOnce(u)'
  BY <1>1, <1>2, <1>5, <1>8 DEF DeferredOnce, IsDeferred
<1>9. ASSUME NEW a \in Package PROVE IsReleased(a)' <=> IsReleased(a)
  <2>1. IsReleased(a)' => IsReleased(a)
    BY <1>1, <1>2, <1>5 DEF IsReleased
  <2>2. IsReleased(a) => IsReleased(a)'
    BY <1>1, <1>3, <1>4 DEF IsReleased
  <2> QED BY <2>1, <2>2
<1>10. ASSUME NEW a \in Package, ReleasedOnce(a) PROVE ReleasedOnce(a)'
  BY <1>1, <1>2, <1>5, <1>10 DEF ReleasedOnce
<1> QED BY <1>7, <1>8, <1>9, <1>10

\* What the end of a command defers.
LEMMA FinishCallsAppended ==
    ASSUME deferred \in Seq(DeferredCall), ConstantsAssumption, NEW t \in Task,
           deferred' = deferred \o FinishCalls(t), cmd[t].id \in Package
    PROVE  /\ \A u \in Task : IsDeferred(u)' <=> IsDeferred(u)
           /\ \A u \in Task : DeferredOnce(u) => DeferredOnce(u)'
           /\ \A a \in Package : IsReleased(a)' <=> IsReleased(a) \/ a = cmd[t].id
           /\ \A a \in Package : ReleasedOnce(a) /\ (a = cmd[t].id => ~IsReleased(a)) => ReleasedOnce(a)'
<1> DEFINE n == Len(deferred)
           m == Len(FinishCalls(t))
<1>1. /\ n \in Nat /\ DOMAIN deferred = 1 .. n
      /\ m \in {1, 2} /\ FinishCalls(t)[1] = ReleaseCall(cmd[t].id)
      /\ m = 2 => FinishCalls(t)[2] = RollbackCall(cmd[t].id, cmd[t].verify, PlaceOf(t))
  BY DEF FinishCalls
<1>2. /\ DOMAIN deferred' = 1 .. n + m
      /\ \A k \in 1 .. n : deferred'[k] = deferred[k]
      /\ deferred'[n + 1] = ReleaseCall(cmd[t].id)
      /\ m = 2 => deferred'[n + 2] = RollbackCall(cmd[t].id, cmd[t].verify, PlaceOf(t))
  BY DEF FinishCalls
<1> HIDE DEF n, m
<1>3. /\ \A a : ReleaseCall(a).task \notin Task
      /\ \A a, v, p : RollbackCall(a, v, p).task \notin Task
      /\ \A a, b, v, p : RollbackCall(a, v, p) # ReleaseCall(b)
      /\ \A a, b : ReleaseCall(a) = ReleaseCall(b) => a = b
  <2>1. \A a : ReleaseCall(a).task = NoTask /\ ReleaseCall(a).call = "release" /\ ReleaseCall(a).id = a
    BY DEF ReleaseCall
  <2>2. \A a, v, p : RollbackCall(a, v, p).task = NoTask /\ RollbackCall(a, v, p).call = "rollback"
    BY DEF RollbackCall
  <2>3. \A a, b : ReleaseCall(a) = ReleaseCall(b) => a = b
    BY <2>1
  <2>4. \A a, b, v, p : RollbackCall(a, v, p) # ReleaseCall(b)
    BY <2>1, <2>2
  <2> QED BY <2>1, <2>2, <2>3, <2>4 DEF ConstantsAssumption
<1>4. \A k \in DOMAIN deferred' :
          \/ k \in DOMAIN deferred /\ deferred'[k] = deferred[k]
          \/ k = n + 1 /\ deferred'[k] = ReleaseCall(cmd[t].id)
          \/ deferred'[k].task \notin Task /\ \A a : deferred'[k] # ReleaseCall(a)
  BY <1>1, <1>2, <1>3
<1>5. DOMAIN deferred \subseteq DOMAIN deferred' /\ n + 1 \in DOMAIN deferred' /\ n + 1 \notin DOMAIN deferred
  BY <1>1, <1>2
<1>6. ASSUME NEW u \in Task PROVE IsDeferred(u)' <=> IsDeferred(u)
  <2>1. IsDeferred(u)' => IsDeferred(u)
    BY <1>3, <1>4 DEF IsDeferred
  <2>2. IsDeferred(u) => IsDeferred(u)'
    BY <1>1, <1>2, <1>5 DEF IsDeferred
  <2> QED BY <2>1, <2>2
<1>7. ASSUME NEW u \in Task, DeferredOnce(u) PROVE DeferredOnce(u)'
  BY <1>3, <1>4, <1>7 DEF DeferredOnce
<1>8. ASSUME NEW a \in Package PROVE IsReleased(a)' <=> IsReleased(a) \/ a = cmd[t].id
  <2>1. IsReleased(a)' => IsReleased(a) \/ a = cmd[t].id
    BY <1>3, <1>4 DEF IsReleased
  <2>2. IsReleased(a) => IsReleased(a)'
    BY <1>1, <1>2, <1>5 DEF IsReleased
  <2>3. a = cmd[t].id => IsReleased(a)'
    BY <1>2, <1>5 DEF IsReleased
  <2> QED BY <2>1, <2>2, <2>3
<1>9. ASSUME NEW a \in Package, ReleasedOnce(a), a = cmd[t].id => ~IsReleased(a)
      PROVE  ReleasedOnce(a)'
  BY <1>3, <1>4, <1>9 DEF ReleasedOnce, IsReleased
<1> QED BY <1>6, <1>7, <1>8, <1>9

\* Every move keeps the bookkeeping.
LEMMA MoveKeepsIInv ==
    ASSUME IInv, TypeOK', ConstantsAssumption, NEW t \in Task, Quiet, Move(t)
    PROVE  IInv'
<1> USE DEF IInv
<1>1. /\ mapTask' = mapTask /\ cmd' = cmd /\ finished' = finished
      /\ \A u \in Task : Live(u)' <=> Live(u)
      /\ \A a \in AppId : Known(a)' <=> Known(a)
  BY DEF Quiet, Live, Known
<1>2. /\ t # NoTask /\ \A u \in Task : u # NoTask
      /\ waiting \in [Task -> Waits] /\ deferred \in Seq(DeferredCall)
      /\ unwind \in {"none", "finish", "report"}
  BY DEF ConstantsAssumption, TypeOK
<1>3. CASE ~GoesOnLater(t)
  <2>1. /\ \A u \in Task : (IsDeferred(u)' <=> IsDeferred(u)) /\ (DeferredOnce(u)' <=> DeferredOnce(u))
        /\ \A a \in Package : (IsReleased(a)' <=> IsReleased(a)) /\ (ReleasedOnce(a)' <=> ReleasedOnce(a))
    BY <1>3, QueueUnchanged DEF Move, Dispatched, StillWaits, Suspended, GoesOn, GoesOnThenFails, Fails
  <2>2. ReleaseOwed' /\ ReleasesAnId'
    BY <1>1, <2>1 DEF ReleaseOwed, ReleasesAnId, Package, Known
  <2>3. CASE Dispatched(t)
    <3>1. /\ call = "none" /\ current = NoTask /\ current' = t /\ call' = "proceed"
          /\ unwind' = "none" /\ unwind = "none"
          /\ waiting[t] # "none" /\ waiting'[t] = "none"
          /\ \A u \in Task \ {t} : waiting'[u] = waiting[u]
      BY <2>3, <1>2 DEF Dispatched, FramesOK, Await, Proceed
    <3>2. cmd[t] # NoCommand /\ ~IsDeferred(t)
      BY <3>1 DEF EntriesOK, CallsAreForLive
    <3>3. FramesOK'
      BY <3>1, <3>2, <1>1, <1>2 DEF FramesOK
    <3>4. EntriesOK'
      BY <3>1, <1>1, <1>2 DEF EntriesOK, Stray, Known
    <3>5. CallsAreForLive' /\ LiveAreCarried'
      BY <3>1, <3>2, <2>1, <1>1, <1>2 DEF CallsAreForLive, LiveAreCarried, Carried
    <3>6. ~SendMayFail => Orderly'
      BY <3>1, <1>1, <1>2 DEF Orderly
    <3> QED BY <3>3, <3>4, <3>5, <3>6, <2>2
  <2>4. CASE StillWaits(t)
    <3>1. /\ call = "none" /\ current = NoTask /\ current' = NoTask /\ call' = call /\ unwind' = unwind
          /\ waiting[t] # "none" /\ waiting'[t] # "none"
          /\ \A u \in Task \ {t} : waiting'[u] = waiting[u]
      BY <2>4, <1>2 DEF StillWaits, FramesOK, Await, loopVars
    <3>2. FramesOK'
      BY <3>1 DEF FramesOK
    <3>3. EntriesOK'
      BY <3>1, <1>1, <1>2 DEF EntriesOK, Stray, Known
    <3>4. CallsAreForLive' /\ LiveAreCarried'
      BY <3>1, <2>1, <1>1, <1>2 DEF CallsAreForLive, LiveAreCarried, Carried
    <3>5. ~SendMayFail => Orderly'
      BY <3>1, <1>1, <1>2 DEF Orderly
    <3> QED BY <3>2, <3>3, <3>4, <3>5, <2>2
  <2>5. CASE Suspended(t)
    <3>1. /\ current = t /\ call = "step" /\ ~finished[t] /\ cmd[t] # NoCommand /\ ~IsDeferred(t)
          /\ waiting'[t] # "none"
          /\ \A u \in Task \ {t} : waiting'[u] = waiting[u]
          /\ call' = unwind /\ unwind' = "none" /\ current' = IF unwind = "none" THEN NoTask ELSE t
      BY <2>5, <1>2 DEF Suspended, InStep, FramesOK, CallsAreForLive, Await, Return
    <3>2. FramesOK'
      BY <3>1, <1>1, <1>2 DEF FramesOK
    <3>3. EntriesOK'
      BY <3>1, <1>1, <1>2 DEF EntriesOK, Stray, Known
    <3>4. CallsAreForLive' /\ LiveAreCarried'
      BY <3>1, <2>1, <1>1, <1>2 DEF CallsAreForLive, LiveAreCarried, Carried
    <3>5. ~SendMayFail => Orderly'
      BY <3>1, <1>1, <1>2 DEF Orderly
    <3> QED BY <3>2, <3>3, <3>4, <3>5, <2>2
  <2>6. CASE GoesOn(t) \/ GoesOnThenFails(t) \/ Fails(t)
    <3>1. /\ current = t /\ call = "step" /\ ~finished[t] /\ cmd[t] # NoCommand
          /\ waiting[t] = "none" /\ waiting' = waiting
          /\ current' = t /\ call' \in {"proceed", "finish"}
          /\ call' = "proceed" /\ unwind' # "none" => step'[t] \in NestedSteps
      BY <2>6, <1>2 DEF GoesOn, GoesOnThenFails, Fails, InStep, Proceed, Fail, FramesOK
    <3>2. FramesOK'
      BY <3>1, <1>1, <1>2 DEF FramesOK
    <3>3. EntriesOK'
      BY <3>1, <1>1, <1>2 DEF EntriesOK, Stray, Known
    <3>4. CallsAreForLive' /\ LiveAreCarried'
      BY <3>1, <2>1, <1>1, <1>2 DEF CallsAreForLive, LiveAreCarried, Carried
    <3>5. ASSUME ~SendMayFail PROVE Orderly'
      <4>1. Orderly /\ unwind = "none"
        BY <3>1, <3>5 DEF Orderly
      <4>2. unwind' = "none" \/ (unwind' = "finish" /\ step'[t] \in ErrorSteps)
        BY <2>6, <3>5, <4>1 DEF GoesOn, GoesOnThenFails, Fails, Proceed, Fail
      <4> QED BY <3>1, <4>1, <4>2, <1>1, <1>2 DEF Orderly
    <3> QED BY <3>2, <3>3, <3>4, <3>5, <2>2
  <2> QED BY <2>3, <2>4, <2>5, <2>6, <1>3 DEF Move
<1>4. CASE GoesOnLater(t)
  <2>1. PICK c \in TaskCalls : deferred' = Append(deferred, TaskCall(c, t))
    BY <1>4 DEF GoesOnLater
  <2>2. /\ \A u \in Task : IsDeferred(u)' <=> IsDeferred(u) \/ u = t
        /\ \A u \in Task : DeferredOnce(u) /\ (u = t => ~IsDeferred(u)) => DeferredOnce(u)'
        /\ \A a \in Package : IsReleased(a)' <=> IsReleased(a)
        /\ \A a \in Package : ReleasedOnce(a) => ReleasedOnce(a)'
    BY <2>1, <1>2, TaskCallAppended
  <2>3. /\ current = t /\ call = "step" /\ unwind = "none"
        /\ current' = NoTask /\ call' = "none" /\ unwind' = "none" /\ waiting' = waiting
    BY <1>4 DEF GoesOnLater, InStep, Return
  <2>4. Live(t) /\ ~IsDeferred(t) /\ waiting[t] = "none"
    BY <2>3, <1>2 DEF FramesOK, CallsAreForLive, Live
  <2>5. FramesOK'
    BY <2>3 DEF FramesOK
  <2>6. EntriesOK'
    BY <2>3, <2>4, <1>1, <1>2 DEF EntriesOK, Stray, Known, Live
  <2>7. CallsAreForLive' /\ LiveAreCarried'
    BY <2>2, <2>3, <2>4, <1>1, <1>2 DEF CallsAreForLive, LiveAreCarried, Carried
  <2>8. ReleaseOwed' /\ ReleasesAnId'
    BY <2>2, <1>1 DEF ReleaseOwed, ReleasesAnId, Package, Known
  <2>9. ~SendMayFail => Orderly'
    BY <2>3, <1>1, <1>2 DEF Orderly
  <2> QED BY <2>5, <2>6, <2>7, <2>8, <2>9
<1> QED BY <1>3, <1>4

\* A command that is accepted.
LEMMA CreateKeepsIInv ==
    ASSUME IInv, TypeOK', ConstantsAssumption, NEW t \in FreeTasks, NEW c \in Command,
           call = "none", ~Known(c.id),
           mapTask' = [mapTask EXCEPT ![c.id] = t], cmd' = [cmd EXCEPT ![t] = c],
           UNCHANGED <<finished, waiting, loopVars>>,
           \A u \in Task : IsDeferred(u)' <=> IsDeferred(u) \/ u = t,
           \A u \in Task : DeferredOnce(u) /\ (u = t => ~IsDeferred(u)) => DeferredOnce(u)',
           \A a \in Package : IsReleased(a)' <=> IsReleased(a),
           \A a \in Package : ReleasedOnce(a) => ReleasedOnce(a)'
    PROVE  IInv'
<1> USE DEF IInv
<1>1. /\ t \in Task /\ t # NoTask /\ cmd[t] = NoCommand
      /\ c # NoCommand /\ c.id \in AppId
      /\ mapTask \in [AppId -> Task \cup {NoTask}] /\ cmd \in [Task -> Command \cup {NoCommand}]
      /\ \A u \in Task : u # NoTask
  BY DEF FreeTasks, ConstantsAssumption, TypeOK, Command, NoCommand
<1>2. /\ cmd'[t] = c /\ \A u \in Task \ {t} : cmd'[u] = cmd[u]
      /\ mapTask'[c.id] = t /\ \A a \in AppId \ {c.id} : mapTask'[a] = mapTask[a]
      /\ mapTask[c.id] = NoTask
      /\ current = NoTask /\ unwind = "none"
      /\ finished' = finished /\ waiting' = waiting
      /\ call' = call /\ current' = current /\ unwind' = unwind
  BY <1>1 DEF Known, loopVars, FramesOK
<1>3. ~finished[t] /\ waiting[t] = "none" /\ ~IsDeferred(t)
  BY <1>1 DEF EntriesOK, CallsAreForLive, Live
<1>4. FramesOK'
  BY <1>2 DEF FramesOK
<1>5. EntriesOK'
  <2>1. ASSUME NEW a \in AppId, Known(a)' PROVE cmd'[mapTask'[a]] # NoCommand /\ cmd'[mapTask'[a]].id = a
    <3>1. CASE a = c.id
      BY <3>1, <1>1, <1>2
    <3>2. CASE a # c.id
      BY <3>2, <2>1, <1>1, <1>2 DEF EntriesOK, Known
    <3> QED BY <3>1, <3>2
  <2>2. ASSUME NEW u \in Task, cmd'[u] # NoCommand
        PROVE  cmd'[u].id \in AppId /\ (mapTask'[cmd'[u].id] = u \/ Stray(u)')
    <3>1. CASE u = t
      BY <3>1, <1>1, <1>2
    <3>2. CASE u # t
      <4>1. cmd[u].id \in AppId /\ (mapTask[cmd[u].id] = u \/ Stray(u)) /\ (Stray(u)' <=> Stray(u))
        BY <3>2, <2>2, <1>1, <1>2 DEF EntriesOK, Stray
      <4> QED BY <3>2, <4>1, <1>1, <1>2
    <3> QED BY <3>1, <3>2
  <2>3. \A u \in Task : finished'[u] \/ waiting'[u] # "none" => cmd'[u] # NoCommand
    BY <1>1, <1>2 DEF EntriesOK
  <2> QED BY <2>1, <2>2, <2>3 DEF EntriesOK
<1>6. \A u \in Task : Live(u)' <=> Live(u) \/ u = t
  BY <1>1, <1>2, <1>3 DEF Live
<1>7. CallsAreForLive' /\ LiveAreCarried'
  BY <1>1, <1>2, <1>3, <1>6 DEF CallsAreForLive, LiveAreCarried, Carried
<1>8. ReleaseOwed' /\ ReleasesAnId'
  <2>1. ASSUME NEW a \in AppId
        PROVE  IsReleased(a)' <=> Known(a)' /\ finished'[mapTask'[a]]
    <3>1. CASE a = c.id
      BY <3>1, <1>1, <1>2, <1>3 DEF ReleaseOwed, Known, Package
    <3>2. CASE a # c.id
      BY <3>2, <1>2 DEF ReleaseOwed, Known, Package
    <3> QED BY <3>1, <3>2
  <2>2. \A a \in AppId : ReleasedOnce(a)'
    BY DEF ReleaseOwed, Package
  <2>3. ReleasesAnId'
    BY DEF ReleasesAnId, Package
  <2> QED BY <2>1, <2>2, <2>3 DEF ReleaseOwed
<1>9. ~SendMayFail => Orderly'
  BY <1>1, <1>2 DEF Orderly
<1> QED BY <1>4, <1>5, <1>7, <1>8, <1>9

\* A deferred call goes on with its command.
LEMMA TaskCallKeepsIInv ==
    ASSUME IInv, TypeOK', ConstantsAssumption,
           call = "none", deferred # <<>>, Head(deferred).call \in TaskCalls,
           deferred' = Tail(deferred), Proceed(Head(deferred).task),
           UNCHANGED <<mapTask, cmd, finished, waiting>>
    PROVE  IInv'
<1> USE DEF IInv
<1> DEFINE t == Head(deferred).task
<1>1. deferred \in Seq(DeferredCall) /\ Head(deferred) \in DeferredCall
  BY DEF TypeOK
<1>2. t \in Task /\ \A a \in Package : Head(deferred) # ReleaseCall(a)
  <2>1. \A d \in DeferredCall : d.call \in TaskCalls => d.task \in Task
    BY DEF DeferredCall, TaskCall, ReleaseCall, RollbackCall, TaskCalls
  <2>2. \A a \in Package : ReleaseCall(a).call = "release"
    BY DEF ReleaseCall
  <2> QED BY <1>1, <2>1, <2>2 DEF TaskCalls
<1>3. /\ \A u \in Task : (IsDeferred(u) => IsDeferred(u)' \/ t = u) /\ (IsDeferred(u)' => IsDeferred(u))
      /\ \A u \in Task : DeferredOnce(u) => DeferredOnce(u)'
      /\ IsDeferred(t) /\ (DeferredOnce(t) => \A u \in Task : u = t => ~IsDeferred(u)')
      /\ \A a \in Package : IsReleased(a)' <=> IsReleased(a)
      /\ \A a \in Package : ReleasedOnce(a) => ReleasedOnce(a)'
  BY <1>1, <1>2, HeadTaken
<1> HIDE DEF t
<1>4. /\ current' = t /\ call' = "proceed" /\ current = NoTask /\ unwind = "none" /\ unwind' = "none"
      /\ mapTask' = mapTask /\ cmd' = cmd /\ finished' = finished /\ waiting' = waiting
      /\ \A u \in Task : u # NoTask
  BY DEF Proceed, FramesOK, ConstantsAssumption, t
<1>5. Live(t) /\ waiting[t] = "none" /\ DeferredOnce(t)
  BY <1>2, <1>3 DEF CallsAreForLive
<1>6. \A u \in Task : Live(u)' <=> Live(u)
  BY <1>4 DEF Live
<1>7. FramesOK'
  BY <1>2, <1>4, <1>5 DEF FramesOK, Live
<1>8. EntriesOK'
  BY <1>4 DEF EntriesOK, Stray, Known
<1>9. CallsAreForLive' /\ LiveAreCarried'
  BY <1>2, <1>3, <1>4, <1>5, <1>6 DEF CallsAreForLive, LiveAreCarried, Carried
<1>10. ReleaseOwed' /\ ReleasesAnId'
  BY <1>3, <1>4 DEF ReleaseOwed, ReleasesAnId, Known, Package
<1>11. ~SendMayFail => Orderly'
  BY <1>2, <1>4, <1>5 DEF Orderly, Live
<1> QED BY <1>7, <1>8, <1>9, <1>10, <1>11

(***************************************************************************)
(* The release of a command that has ended destroys it, or makes it a      *)
(* stray.                                                                  *)
(***************************************************************************)
LEMMA ReleaseKeepsIInv ==
    ASSUME IInv, TypeOK', ConstantsAssumption, ReleaseTask
    PROVE  IInv'
<1> USE DEF IInv
<1> DEFINE a == Head(deferred).id
           t == mapTask[a]
<1>1. /\ deferred \in Seq(DeferredCall) /\ deferred # <<>> /\ deferred' = Tail(deferred)
      /\ Head(deferred) \in DeferredCall /\ Head(deferred).call = "release" /\ call = "none"
  BY DEF TypeOK, ReleaseTask, AtRest
<1>2. Head(deferred) = ReleaseCall(a) /\ a \in Package /\ Head(deferred).task \notin Task
  <2>1. \A d \in DeferredCall : d.call = "release" =>
            d = ReleaseCall(d.id) /\ d.id \in Package /\ d.task = NoTask
    BY DEF DeferredCall, TaskCall, ReleaseCall, RollbackCall, TaskCalls
  <2> QED BY <1>1, <2>1 DEF ConstantsAssumption
<1>3. /\ \A u \in Task : (IsDeferred(u)' <=> IsDeferred(u)) /\ (DeferredOnce(u) => DeferredOnce(u)')
      /\ IsReleased(a)
  <2>1. \A u \in Task : Head(deferred).task # u
    BY <1>2
  <2> QED BY <1>1, <1>2, <2>1, HeadTaken
<1>4. /\ \A b \in Package \ {a} : IsReleased(b)' <=> IsReleased(b)
      /\ ReleasedOnce(a) => \A b \in Package : b = a => ~IsReleased(b)'
  <2>1. ASSUME NEW b \in Package, b # a PROVE Head(deferred) # ReleaseCall(b)
    <3>1. ReleaseCall(b).id = b
      BY DEF ReleaseCall
    <3> QED BY <3>1, <2>1
  <2> QED BY <1>1, <1>2, <2>1, HeadTaken
<1>5. \A b \in Package : ReleasedOnce(b) => ReleasedOnce(b)'
  BY <1>1, HeadTaken
<1>6. a \in AppId
  BY <1>2, <1>3 DEF ReleasesAnId, Package
<1>7. Known(a) /\ finished[t] /\ ReleasedOnce(a) /\ t \in Task /\ cmd[t] # NoCommand /\ cmd[t].id = a
  <2>1. Known(a) /\ finished[t] /\ ReleasedOnce(a)
    BY <1>3, <1>6 DEF ReleaseOwed
  <2> QED BY <2>1, <1>6 DEF Known, EntriesOK, TypeOK
<1>8. ~IsDeferred(t)
  BY <1>7 DEF CallsAreForLive, Live
<1> HIDE DEF a, t
<1>9. /\ mapTask' = [mapTask EXCEPT ![a] = NoTask]
      /\ \/ waiting[t] = "none" /\ Destroy(t)
         \/ waiting[t] # "none" /\ cmd' = cmd /\ finished' = finished
      /\ UNCHANGED <<waiting, loopVars>>
  BY <1>7 DEF ReleaseTask, ConstantsAssumption, taskVars, a, t
<1>10. /\ mapTask'[a] = NoTask /\ \A b \in AppId \ {a} : mapTask'[b] = mapTask[b]
       /\ \/ waiting[t] = "none" /\ cmd'[t] = NoCommand /\ ~finished'[t]
          \/ waiting[t] # "none" /\ cmd'[t] = cmd[t] /\ finished'[t]
       /\ \A u \in Task \ {t} : cmd'[u] = cmd[u] /\ finished'[u] = finished[u]
       /\ waiting' = waiting /\ call' = "none" /\ current' = NoTask /\ current = NoTask /\ unwind' = "none"
       /\ NoTask \notin Task
  BY <1>1, <1>6, <1>7, <1>9 DEF TypeOK, Destroy, loopVars, FramesOK, ConstantsAssumption
<1>11. \A u \in Task : Live(u)' <=> Live(u)
  BY <1>7, <1>10 DEF Live
<1>12. FramesOK'
  BY <1>10 DEF FramesOK
<1>13. EntriesOK'
  <2>1. ASSUME NEW u \in Task, cmd'[u] # NoCommand
        PROVE  cmd'[u].id \in AppId /\ (mapTask'[cmd'[u].id] = u \/ Stray(u)')
    <3>1. CASE u = t
      BY <3>1, <2>1, <1>6, <1>7, <1>10 DEF Stray
    <3>2. CASE u # t
      <4>1. cmd[u].id \in AppId /\ (mapTask[cmd[u].id] = u \/ Stray(u))
        BY <3>2, <2>1, <1>10 DEF EntriesOK
      <4>2. Stray(u) => Stray(u)'
        BY <3>2, <1>1, <1>10 DEF Stray
      <4>3. mapTask[cmd[u].id] = u => cmd[u].id # a
        BY <3>2 DEF t
      <4> QED BY <3>2, <4>1, <4>2, <4>3, <1>10
    <3> QED BY <3>1, <3>2
  <2>2. ASSUME NEW b \in AppId, Known(b)'
        PROVE  cmd'[mapTask'[b]] # NoCommand /\ cmd'[mapTask'[b]].id = b
    <3>1. b # a /\ mapTask'[b] = mapTask[b] /\ Known(b)
      BY <2>2, <1>10 DEF Known
    <3>2. mapTask[b] \in Task /\ cmd[mapTask[b]] # NoCommand /\ cmd[mapTask[b]].id = b
      BY <3>1 DEF EntriesOK, TypeOK, Known
    <3>3. mapTask[b] # t
      BY <3>1, <3>2, <1>7
    <3> QED BY <3>1, <3>2, <3>3, <1>10
  <2>3. \A u \in Task : finished'[u] \/ waiting'[u] # "none" => cmd'[u] # NoCommand
    BY <1>7, <1>10 DEF EntriesOK
  <2> QED BY <2>1, <2>2, <2>3 DEF EntriesOK
<1>14. CallsAreForLive' /\ LiveAreCarried'
  BY <1>3, <1>10, <1>11 DEF CallsAreForLive, LiveAreCarried, Carried
<1>15. ReleaseOwed' /\ ReleasesAnId'
  <2>1. ASSUME NEW b \in AppId
        PROVE  IsReleased(b)' <=> Known(b)' /\ finished'[mapTask'[b]]
    <3>1. CASE b = a
      BY <3>1, <1>4, <1>7, <1>10, <1>6 DEF Known, Package
    <3>2. CASE b # a
      <4>1. (Known(b)' <=> Known(b)) /\ mapTask'[b] = mapTask[b]
        BY <3>2, <1>10 DEF Known
      <4>2. Known(b) => mapTask[b] \in Task \ {t}
        BY <3>2, <1>7 DEF Known, TypeOK, EntriesOK
      <4>3. IsReleased(b)' <=> IsReleased(b)
        BY <3>2, <1>4 DEF Package
      <4> QED BY <4>1, <4>2, <4>3, <1>10 DEF ReleaseOwed
    <3> QED BY <3>1, <3>2
  <2>2. \A b \in AppId : ReleasedOnce(b)'
    BY <1>5 DEF ReleaseOwed, Package
  <2>3. ReleasesAnId'
    BY <1>4, <1>6 DEF ReleasesAnId, Package, ConstantsAssumption
  <2> QED BY <2>1, <2>2, <2>3 DEF ReleaseOwed
<1>16. ~SendMayFail => Orderly'
  BY <1>7, <1>10 DEF Orderly
<1> QED BY <1>12, <1>13, <1>14, <1>15, <1>16

\* A rollback is refused or becomes a command.
LEMMA RollbackKeepsIInv ==
    ASSUME IInv, TypeOK', ConstantsAssumption, Rollback
    PROVE  IInv'
<1> USE DEF IInv
<1> DEFINE d == Head(deferred)
           c == [name |-> "RemoveTask", id |-> d.id, verify |-> d.verify, pwa |-> FALSE,
                 cleans |-> d.unpacked]
<1>1. /\ deferred \in Seq(DeferredCall) /\ deferred # <<>> /\ d.call = "rollback" /\ call = "none"
      /\ d \in DeferredCall
  BY DEF TypeOK, Rollback, AtRest
<1>2. CASE Known(d.id)
  <2>1. deferred' = Tail(deferred) /\ UNCHANGED <<mapTask, cmd, finished, waiting, loopVars>>
    BY <1>2 DEF Rollback, taskVars
  <2>2. d.task \notin Task /\ \A a \in Package : d # ReleaseCall(a)
    <3>1. \A e \in DeferredCall : e.call = "rollback" => e.task = NoTask
      BY DEF DeferredCall, TaskCall, ReleaseCall, RollbackCall, TaskCalls
    <3>2. \A a \in Package : ReleaseCall(a).call = "release"
      BY DEF ReleaseCall
    <3> QED BY <1>1, <3>1, <3>2 DEF ConstantsAssumption
  <2>3. /\ \A u \in Task : (IsDeferred(u)' <=> IsDeferred(u)) /\ (DeferredOnce(u) => DeferredOnce(u)')
        /\ \A a \in Package : (IsReleased(a)' <=> IsReleased(a)) /\ (ReleasedOnce(a) => ReleasedOnce(a)')
    <3>1. \A u \in Task : d.task # u
      BY <2>2
    <3> QED BY <1>1, <2>1, <2>2, <3>1, HeadTaken
  <2>4. FramesOK' /\ EntriesOK' /\ (~SendMayFail => Orderly')
    BY <2>1, <1>1 DEF FramesOK, EntriesOK, Orderly, Stray, Known, loopVars
  <2>5. CallsAreForLive' /\ LiveAreCarried'
    BY <2>1, <2>3 DEF CallsAreForLive, LiveAreCarried, Carried, Live, loopVars
  <2>6. ReleaseOwed' /\ ReleasesAnId'
    BY <2>1, <2>3 DEF ReleaseOwed, ReleasesAnId, Known, Package
  <2> QED BY <2>4, <2>5, <2>6
<1>3. CASE ~Known(d.id)
  <2>1. PICK t \in FreeTasks : CreateTask(t, c, Tail(deferred))
    BY <1>3 DEF Rollback
  <2>2. t \in Task /\ c \in Command /\ c.id = d.id
    BY <1>1, HeadType DEF FreeTasks, Command
  <2>3. /\ mapTask' = [mapTask EXCEPT ![c.id] = t] /\ cmd' = [cmd EXCEPT ![t] = c]
        /\ UNCHANGED <<finished, waiting, loopVars>>
        /\ deferred' = Append(Tail(deferred), TaskCall("proceed", t))
    BY <2>1 DEF CreateTask
  <2>4. /\ \A u \in Task : IsDeferred(u)' <=> IsDeferred(u) \/ u = t
        /\ \A u \in Task : DeferredOnce(u) /\ (u = t => ~IsDeferred(u)) => DeferredOnce(u)'
        /\ \A a \in Package : IsReleased(a)' <=> IsReleased(a)
        /\ \A a \in Package : ReleasedOnce(a) => ReleasedOnce(a)'
    BY <2>2, <2>3, <1>1, RollbackReplaced
  <2> HIDE DEF c, d
  <2> QED BY <2>1, <2>2, <2>3, <2>4, <1>1, <1>3, CreateKeepsIInv
<1> QED BY <1>2, <1>3

\* What clients ask for and what the loop goes on with.
LEMMA LoopKeepsIInv ==
    ASSUME IInv, TypeOK', ConstantsAssumption, Client \/ Deferred
    PROVE  IInv'
<1>1. ASSUME NEW t \in FreeTasks, NEW c \in Command, ~Known(c.id), call = "none",
             CreateTask(t, c, deferred)
      PROVE  IInv'
  <2>1. /\ mapTask' = [mapTask EXCEPT ![c.id] = t] /\ cmd' = [cmd EXCEPT ![t] = c]
        /\ UNCHANGED <<finished, waiting, loopVars>>
        /\ deferred' = Append(deferred, TaskCall("proceed", t))
        /\ t \in Task /\ deferred \in Seq(DeferredCall) /\ "proceed" \in TaskCalls
    BY <1>1 DEF CreateTask, FreeTasks, IInv, TypeOK, TaskCalls
  <2>2. /\ \A u \in Task : IsDeferred(u)' <=> IsDeferred(u) \/ u = t
        /\ \A u \in Task : DeferredOnce(u) /\ (u = t => ~IsDeferred(u)) => DeferredOnce(u)'
        /\ \A a \in Package : IsReleased(a)' <=> IsReleased(a)
        /\ \A a \in Package : ReleasedOnce(a) => ReleasedOnce(a)'
    BY <2>1, TaskCallAppended
  <2> QED BY <1>1, <2>1, <2>2, CreateKeepsIInv
<1>2. NoPlace \in AnyPlace
  BY DEF NoPlace, AnyPlace, Package
<1>3. ASSUME NEW a \in AppId, NEW v \in BOOLEAN, NEW w \in BOOLEAN, Install(a, v, w)
      PROVE  IInv'
  <2> DEFINE c == [name |-> "InstallTask", id |-> a, verify |-> v, pwa |-> w, cleans |-> NoPlace]
  <2>1. c \in Command /\ ~Known(c.id) /\ call = "none"
    BY <1>2, <1>3 DEF Command, Install, MayDispatch, AtRest
  <2>2. \E t \in FreeTasks : CreateTask(t, c, deferred)
    BY <1>3 DEF Install
  <2> HIDE DEF c
  <2> QED BY <2>1, <2>2, <1>1
<1>4. ASSUME NEW a \in AppId, NEW v \in BOOLEAN, Remove(a, v)
      PROVE  IInv'
  <2> DEFINE c == [name |-> "RemoveTask", id |-> a, verify |-> v, pwa |-> FALSE, cleans |-> NoPlace]
  <2>1. c \in Command /\ ~Known(c.id) /\ call = "none"
    BY <1>2, <1>4 DEF Command, Remove, MayDispatch, AtRest
  <2>2. \E t \in FreeTasks : CreateTask(t, c, deferred)
    BY <1>4 DEF Remove
  <2> HIDE DEF c
  <2> QED BY <2>1, <2>2, <1>1
<1>5. CASE DeferredProceed \/ DeferredServiceFailed \/ DeferredJailFailed
  <2>1. /\ call = "none" /\ deferred # <<>> /\ Head(deferred).call \in TaskCalls
        /\ deferred' = Tail(deferred) /\ Proceed(Head(deferred).task)
        /\ UNCHANGED <<mapTask, cmd, finished, waiting>>
    BY <1>5 DEF DeferredProceed, DeferredServiceFailed, DeferredJailFailed, AtRest, TaskCalls, taskVars
  <2> QED BY <2>1, TaskCallKeepsIInv
<1>6. CASE ReleaseTask
  BY <1>6, ReleaseKeepsIInv
<1>7. CASE Rollback
  BY <1>7, RollbackKeepsIInv
<1> QED BY <1>3, <1>4, <1>5, <1>6, <1>7 DEF Client, Deferred

\* What comes after a stage on its stack, under a frame that has still something to do.
LEMMA NestedGoesOn ==
    ASSUME StepTablesInOrder, NEW t \in Task, step[t] \in NestedSteps,
           step[t] \in DOMAIN StepTable(t), StepTable(t)[step[t]] \in StepFactory
    PROVE  StepTable(t)[step[t]] \in NestedSteps
<1>1. \A stage \in InstallStages \cup RemoveStages : DoneStatus[stage] \notin
          ErrorSteps \cup {"GetIpkInfoNeeded", "AppCloseNeeded", "IpkRemoveNeeded"}
  BY DEF InstallStages, RemoveStages, DoneStatus, ErrorSteps
<1>2. CASE cmd[t].name = "InstallTask"
  <2>1. StepTable(t) = InstallSteps /\ InstallsInOrder(InstallSteps)
    BY <1>2 DEF StepTable, StepTablesInOrder
  <2>2. DOMAIN InstallSteps \subseteq {"Unknown"} \cup {DoneStatus[stage] : stage \in InstallStages}
    BY <2>1 DEF InstallsInOrder, StagesChain
  <2>3. step[t] = "GetIpkInfoComplete"
    BY <2>1, <2>2 DEF NestedSteps, ErrorSteps, InstallStages, DoneStatus
  <2> QED BY <2>1, <2>3 DEF InstallsInOrder, NestedSteps
<1>3. CASE cmd[t].name # "InstallTask"
  <2>1. StepTable(t) = RemoveSteps /\ RemovesInOrder(RemoveSteps)
    BY <1>3 DEF StepTable, StepTablesInOrder
  <2>2. DOMAIN RemoveSteps \subseteq {"Unknown"} \cup {DoneStatus[stage] : stage \in RemoveStages}
    BY <2>1 DEF RemovesInOrder, StagesChain
  <2>3. step[t] \in {"ServiceUninstallComplete", "DataRemoveComplete"}
    BY <2>1, <2>2 DEF NestedSteps, ErrorSteps, RemoveStages, DoneStatus
  <2> QED BY <2>1, <2>3 DEF RemovesInOrder, NestedSteps, StepFactory
<1> QED BY <1>2, <1>3

\* Task::proceed and Task::finish.
LEMMA UnwindKeepsIInv ==
    ASSUME IInv, TypeOK', ConstantsAssumption, ErrorsEndCommands, StepTablesInOrder,
           NEW t \in Task, Unwind(t)
    PROVE  IInv'
<1> USE DEF IInv
<1>1. /\ deferred \in Seq(DeferredCall) /\ finished \in [Task -> BOOLEAN]
      /\ unwind \in {"none", "finish", "report"} /\ step \in [Task -> TaskStep]
      /\ \A u \in Task : u # NoTask
  BY DEF ConstantsAssumption, TypeOK
<1>2. CASE ProceedToStage(t) \/ ProceedToEnd(t) \/ FinishAgain(t) \/ ReportServiceFailure(t)
  <2>1. UNCHANGED <<mapTask, cmd, finished, waiting, deferred>>
    BY <1>2 DEF ProceedToStage, ProceedToEnd, FinishAgain, ReportServiceFailure, taskVars
  <2>2. /\ \A u \in Task : (IsDeferred(u)' <=> IsDeferred(u)) /\ (DeferredOnce(u)' <=> DeferredOnce(u))
        /\ \A a \in Package : (IsReleased(a)' <=> IsReleased(a)) /\ (ReleasedOnce(a)' <=> ReleasedOnce(a))
    BY <2>1, QueueUnchanged
  <2>3. \A u \in Task : Live(u)' <=> Live(u)
    BY <2>1 DEF Live
  <2>4. current = t /\ cmd[t] # NoCommand
    BY <1>1, <1>2, <2>1 DEF ProceedToStage, ProceedToEnd, FinishAgain, ReportServiceFailure, FramesOK
  <2>5. /\ FramesOK' /\ (~SendMayFail => Orderly')
        /\ current' = t \/ (current' = NoTask /\ finished[t])
        /\ call = "proceed" => ~finished[t]
    <3>1. CASE ProceedToStage(t)
      <4>1. /\ call = "proceed" /\ call' \in {"step", "finish"} /\ current' = t /\ unwind' = unwind
            /\ step[t] \in DOMAIN StepTable(t) /\ ~finished[t]
            /\ step'[t] = StepTable(t)[step[t]] /\ (call' = "step" => step'[t] \in StepFactory)
        BY <3>1, <1>1 DEF ProceedToStage, SetStep
      <4>2. call' = "step" /\ unwind # "none" => step'[t] \in NestedSteps
        BY <4>1, <2>4, NestedGoesOn DEF FramesOK
      <4>3. FramesOK'
        BY <4>1, <4>2, <2>1, <2>4, <1>1 DEF FramesOK
      <4>4. ASSUME ~SendMayFail PROVE Orderly'
        <5>1. step[t] \notin ErrorSteps
          BY <4>1 DEF ErrorsEndCommands, EndsAtErrors, StepTable
        <5>2. unwind = "none"
          BY <4>1, <4>4, <5>1, <2>4, <1>1 DEF Orderly
        <5> QED BY <4>1, <4>4, <5>2, <2>1, <2>4, <1>1 DEF Orderly
      <4> QED BY <4>1, <4>3, <4>4
    <3>2. CASE ProceedToEnd(t)
      BY <3>2, <2>1, <2>4, <1>1 DEF ProceedToEnd, Fail, FramesOK, Orderly
    <3>3. CASE FinishAgain(t)
      BY <3>3, <2>1, <2>4, <1>1 DEF FinishAgain, Return, FramesOK, Orderly
    <3>4. CASE ReportServiceFailure(t)
      BY <3>4, <2>1, <2>4, <1>1 DEF ReportServiceFailure, Fail, FramesOK, Orderly
    <3> QED BY <1>2, <3>1, <3>2, <3>3, <3>4
  <2>6. ReleaseOwed' /\ ReleasesAnId'
    BY <2>1, <2>2 DEF ReleaseOwed, ReleasesAnId, Known, Package
  <2>7. EntriesOK'
    BY <2>1, <2>4, <2>5 DEF EntriesOK, Stray, Known
  <2>8. CallsAreForLive' /\ LiveAreCarried'
    BY <2>1, <2>2, <2>3, <2>4, <2>5, <1>1 DEF CallsAreForLive, LiveAreCarried, Carried, Live
  <2> QED BY <2>5, <2>6, <2>7, <2>8
<1>3. CASE FinishTask(t)
  <2> DEFINE a == cmd[t].id
  <2>1. /\ call = "finish" /\ current = t /\ ~finished[t] /\ cmd[t] # NoCommand /\ ~IsDeferred(t)
        /\ UNCHANGED <<mapTask, cmd, waiting>> /\ Return
        /\ finished' = [finished EXCEPT ![t] = TRUE] /\ deferred' = deferred \o FinishCalls(t)
    BY <1>1, <1>3 DEF FinishTask, Finishing, FramesOK, CallsAreForLive
  <2>2. a \in AppId /\ mapTask[a] = t /\ Known(a) /\ ~IsReleased(a) /\ a \in Package
    BY <2>1, <1>1 DEF EntriesOK, Stray, ReleaseOwed, Known, Package
  <2>3. /\ \A u \in Task : IsDeferred(u)' <=> IsDeferred(u)
        /\ \A u \in Task : DeferredOnce(u) => DeferredOnce(u)'
        /\ \A b \in Package : IsReleased(b)' <=> IsReleased(b) \/ b = a
        /\ \A b \in Package : ReleasedOnce(b) /\ (b = a => ~IsReleased(b)) => ReleasedOnce(b)'
    BY <2>1, <2>2, <1>1, FinishCallsAppended
  <2> HIDE DEF a
  <2>4. /\ finished'[t] /\ \A u \in Task \ {t} : finished'[u] = finished[u]
        /\ ~Live(t)' /\ \A u \in Task \ {t} : Live(u)' <=> Live(u)
        /\ waiting' = waiting /\ cmd' = cmd /\ mapTask' = mapTask
        /\ call' = unwind /\ unwind' = "none" /\ current' = IF unwind = "none" THEN NoTask ELSE t
    BY <1>1, <2>1 DEF Live, Return
  <2>5. FramesOK'
    BY <1>1, <2>1, <2>4 DEF FramesOK
  <2>6. EntriesOK'
    BY <1>1, <2>1, <2>2, <2>4 DEF EntriesOK, Stray, Known, a
  <2>7. CallsAreForLive' /\ LiveAreCarried'
    BY <2>1, <2>3, <2>4, <1>1 DEF CallsAreForLive, LiveAreCarried, Carried
  <2>8. ReleaseOwed' /\ ReleasesAnId'
    <3>1. ASSUME NEW b \in AppId
          PROVE  IsReleased(b)' <=> Known(b)' /\ finished'[mapTask'[b]]
      <4>1. CASE b = a
        BY <4>1, <2>2, <2>3, <2>4 DEF Known
      <4>2. CASE b # a
        <5>1. Known(b) => mapTask[b] \in Task \ {t}
          BY <4>2, <2>1 DEF Known, TypeOK, EntriesOK, a
        <5> QED BY <4>2, <5>1, <2>3, <2>4 DEF ReleaseOwed, Known, Package
      <4> QED BY <4>1, <4>2
    <3>2. \A b \in AppId : ReleasedOnce(b)'
      BY <2>2, <2>3 DEF ReleaseOwed, Package
    <3>3. ReleasesAnId'
      BY <2>2, <2>3 DEF ReleasesAnId, Package, ConstantsAssumption
    <3> QED BY <3>1, <3>2, <3>3 DEF ReleaseOwed
  <2>9. ASSUME ~SendMayFail PROVE Orderly'
    BY <1>1, <2>1, <2>4, <2>9 DEF Orderly
  <2> QED BY <2>5, <2>6, <2>7, <2>8, <2>9
<1>4. CASE ProceedFinished(t)
  <2>1. /\ call = "proceed" /\ current = t /\ finished[t] /\ waiting[t] = "none" /\ unwind = "none"
        /\ call' = "none" /\ unwind' = "none" /\ current' = NoTask
        /\ UNCHANGED <<mapTask, waiting, deferred>>
        /\ ~IsDeferred(t) /\ ~Live(t) /\ SendMayFail
    BY <1>1, <1>4 DEF ProceedFinished, Return, FramesOK, CallsAreForLive, Live, Orderly
  <2>2. /\ \/ (\A a \in AppId : mapTask[a] # t) /\ cmd'[t] = NoCommand /\ ~finished'[t]
           \/ (\E a \in AppId : mapTask[a] = t) /\ cmd'[t] = cmd[t] /\ finished'[t]
        /\ \A u \in Task \ {t} : cmd'[u] = cmd[u] /\ finished'[u] = finished[u]
    BY <1>1, <1>4, <2>1 DEF ProceedFinished, Destroy, taskVars, TypeOK
  <2>3. /\ \A u \in Task : (IsDeferred(u)' <=> IsDeferred(u)) /\ (DeferredOnce(u)' <=> DeferredOnce(u))
        /\ \A a \in Package : (IsReleased(a)' <=> IsReleased(a)) /\ (ReleasedOnce(a)' <=> ReleasedOnce(a))
    BY <2>1, QueueUnchanged
  <2>4. \A u \in Task : Live(u)' <=> Live(u)
    BY <2>1, <2>2 DEF Live
  <2>5. \A a \in AppId : Known(a) => /\ mapTask[a] \in Task
                                     /\ cmd'[mapTask[a]] = cmd[mapTask[a]]
                                     /\ finished'[mapTask[a]] = finished[mapTask[a]]
    BY <2>1, <2>2 DEF Known, TypeOK
  <2>6. FramesOK'
    BY <2>1 DEF FramesOK
  <2>7. EntriesOK'
    <3>1. \A a \in AppId : Known(a)' => cmd'[mapTask'[a]] # NoCommand /\ cmd'[mapTask'[a]].id = a
      BY <2>1, <2>5 DEF EntriesOK, Known
    <3>2. ASSUME NEW u \in Task, cmd'[u] # NoCommand
          PROVE  cmd'[u].id \in AppId /\ (mapTask'[cmd'[u].id] = u \/ Stray(u)')
      <4>1. CASE u = t
        <5>1. PICK a \in AppId : mapTask[a] = t /\ cmd'[t] = cmd[t]
          BY <3>2, <4>1, <2>2
        <5>2. cmd[t].id = a
          BY <5>1, <1>1 DEF EntriesOK, Known
        <5> QED BY <4>1, <5>1, <5>2, <2>1
      <4>2. CASE u # t
        BY <3>2, <4>2, <2>1, <2>2 DEF EntriesOK, Stray
      <4> QED BY <4>1, <4>2
    <3>3. \A u \in Task : finished'[u] \/ waiting'[u] # "none" => cmd'[u] # NoCommand
      BY <2>1, <2>2 DEF EntriesOK
    <3> QED BY <3>1, <3>2, <3>3 DEF EntriesOK
  <2>8. CallsAreForLive' /\ LiveAreCarried'
    BY <2>1, <2>3, <2>4, <1>1 DEF CallsAreForLive, LiveAreCarried, Carried
  <2>9. ReleaseOwed' /\ ReleasesAnId'
    BY <2>1, <2>3, <2>5 DEF ReleaseOwed, ReleasesAnId, Known, Package
  <2> QED BY <2>1, <2>6, <2>7, <2>8, <2>9
<1> QED BY <1>2, <1>3, <1>4 DEF Unwind

\* A daemon that starts has no command and nothing to go on with.
LEMMA EmptyIInv ==
    ASSUME TypeOK, ConstantsAssumption,
           mapTask = [a \in AppId |-> NoTask], cmd = [t \in Task |-> NoCommand],
           finished = [t \in Task |-> FALSE], waiting = [t \in Task |-> "none"],
           deferred = <<>>, call = "none", current = NoTask, unwind = "none"
    PROVE  IInv
<1>1. /\ \A t \in Task : ~IsDeferred(t) /\ DeferredOnce(t) /\ ~Live(t)
      /\ \A a \in Package : ~IsReleased(a) /\ ReleasedOnce(a)
  BY DEF IsDeferred, DeferredOnce, IsReleased, ReleasedOnce, Live
<1>2. FramesOK /\ EntriesOK /\ Orderly
  BY DEF FramesOK, EntriesOK, Orderly, Known
<1>3. CallsAreForLive /\ LiveAreCarried
  BY <1>1 DEF CallsAreForLive, LiveAreCarried
<1>4. ReleaseOwed /\ ReleasesAnId
  BY <1>1 DEF ReleaseOwed, ReleasesAnId, Known, Package
<1> QED BY <1>2, <1>3, <1>4 DEF IInv

LEMMA CrashKeepsIInv ==
    ASSUME IInv, TypeOK', ConstantsAssumption, Crash
    PROVE  IInv'
<1>1. /\ \A t \in Task : ~IsDeferred(t)' /\ DeferredOnce(t)' /\ ~Live(t)'
      /\ \A a \in Package : ~IsReleased(a)' /\ ReleasedOnce(a)'
  BY DEF Crash, IsDeferred, DeferredOnce, IsReleased, ReleasedOnce, Live
<1>2. FramesOK' /\ EntriesOK' /\ Orderly'
  BY DEF Crash, FramesOK, EntriesOK, Orderly, Known
<1>3. CallsAreForLive' /\ LiveAreCarried'
  BY <1>1 DEF Crash, CallsAreForLive, LiveAreCarried
<1>4. ReleaseOwed' /\ ReleasesAnId'
  BY <1>1 DEF Crash, ReleaseOwed, ReleasesAnId, Known, Package
<1> QED BY <1>2, <1>3, <1>4 DEF IInv

LEMMA IdleKeepsIInv ==
    ASSUME IInv, TypeOK', UNCHANGED <<mapTask, cmd, step, finished, waiting, deferred, loopVars>>
    PROVE  IInv'
<1> USE DEF IInv
<1>1. /\ \A t \in Task : (IsDeferred(t)' <=> IsDeferred(t)) /\ (DeferredOnce(t)' <=> DeferredOnce(t))
                         /\ (Live(t)' <=> Live(t))
      /\ \A a \in Package : (IsReleased(a)' <=> IsReleased(a)) /\ (ReleasedOnce(a)' <=> ReleasedOnce(a))
  BY QueueUnchanged DEF Live
<1>2. FramesOK' /\ EntriesOK' /\ (~SendMayFail => Orderly')
  BY DEF FramesOK, EntriesOK, Orderly, Stray, Known, loopVars
<1>3. CallsAreForLive' /\ LiveAreCarried'
  BY <1>1 DEF CallsAreForLive, LiveAreCarried, Carried, loopVars
<1>4. ReleaseOwed' /\ ReleasesAnId'
  BY <1>1 DEF ReleaseOwed, ReleasesAnId, Known, Package
<1> QED BY <1>2, <1>3, <1>4

LEMMA NextKeepsIInv ==
    ASSUME IInv, ConstantsAssumption, ErrorsEndCommands, StepTablesInOrder, [Next]_vars, TypeOK'
    PROVE  IInv'
<1>1. CASE Client \/ Deferred
  BY <1>1, LoopKeepsIInv
<1>2. ASSUME NEW t \in Task, Unwind(t) PROVE IInv'
  BY <1>2, UnwindKeepsIInv
<1>3. ASSUME NEW t \in Task, Step(t) \/ Child(t) \/ Reply(t) PROVE IInv'
  <2>1. Quiet /\ Move(t)
    BY <1>3, StepMoves, ChildMoves, ReplyMoves
  <2> QED BY <2>1, MoveKeepsIInv
<1>4. CASE Crash
  BY <1>4, CrashKeepsIInv
<1>5. CASE UNCHANGED vars \/ \E p \in Place : OrphanExits(p)
  <2>1. UNCHANGED <<mapTask, cmd, step, finished, waiting, deferred, loopVars>>
    BY <1>5 DEF vars, OrphanExits, taskVars
  <2> QED BY <2>1, IdleKeepsIInv
<1> QED BY <1>1, <1>2, <1>3, <1>4, <1>5 DEF Next

\* The invariant holds in every state.
LEMMA BookkeepingHolds == Spec => []IInv
<1> USE ConstantsAssumption, ErrorsEndCommands, StepTablesInOrder
<1>1. Init => IInv
  <2> SUFFICES ASSUME Init PROVE IInv
    OBVIOUS
  <2>1. TypeOK
    BY InitType
  <2> QED BY <2>1, EmptyIInv DEF Init
<1>2. IInv /\ TypeOK' /\ [Next]_vars => IInv'
  BY NextKeepsIInv
<1> QED BY <1>1, <1>2, TypeCorrect, PTL DEF Spec

(***************************************************************************)
(* A command that has not ended is never stuck: a callback runs for it, it *)
(* waits for a reply or a child, or a deferred call goes on with it.  For  *)
(* any tables in order, any number of commands in flight, crashes at any   *)
(* point, and whatever calls fail to be sent.                              *)
(***************************************************************************)
THEOREM CommandsAreNeverStuck == Spec => []LiveAreCarried
<1>1. IInv => LiveAreCarried
  BY DEF IInv
<1> QED BY <1>1, BookkeepingHolds, PTL

(***************************************************************************)
(* Exactly the ids whose command has ended have a release on its way, and  *)
(* each only one; also where a frame that returns finishes a command that  *)
(* has ended already, and where a command that has ended is called back.   *)
(***************************************************************************)
THEOREM ReleasesAreOwed == Spec => []ReleaseOwed
<1>1. IInv => ReleaseOwed
  BY DEF IInv
<1> QED BY <1>1, BookkeepingHolds, PTL

\* What the map and the commands have to do with each other while calls can be sent.
MapOK ==
    /\ \A t \in Task : cmd[t] # NoCommand => cmd[t].id \in AppId /\ mapTask[cmd[t].id] = t
    /\ \A a \in AppId : Known(a) => cmd[mapTask[a]] # NoCommand /\ cmd[mapTask[a]].id = a
    /\ \A t \in Task : finished[t] => cmd[t] # NoCommand

\* Then there are no strays.
LEMMA NoStrays ==
    ASSUME IInv, ~SendMayFail, ConstantsAssumption
    PROVE  MapOK /\ OneContinuation /\ NoDanglingCallback
<1> USE DEF IInv
<1>1. \A t \in Task : ~Stray(t)
  BY DEF Orderly, Stray
<1>2. MapOK
  BY <1>1 DEF MapOK, EntriesOK
<1>3. OneContinuation
  BY DEF OneContinuation, LiveAreCarried, Carried, CallsAreForLive, Orderly
<1>4. NoDanglingCallback
  BY <1>2 DEF NoDanglingCallback, MapOK, EntriesOK, CallsAreForLive, Orderly, Live
<1> QED BY <1>2, <1>3, <1>4

(***************************************************************************)
(* While calls can be sent, a command that has not ended has exactly one   *)
(* continuation: for any step tables in order, any number of commands in   *)
(* flight, and crashes at any point.                                       *)
(***************************************************************************)
THEOREM CommandsAreCarried == ~SendMayFail => (Spec => []OneContinuation)
<1> SUFFICES ASSUME ~SendMayFail PROVE Spec => []OneContinuation
  OBVIOUS
<1>1. IInv => OneContinuation
  BY NoStrays, ConstantsAssumption
<1> QED BY <1>1, BookkeepingHolds, PTL

(***************************************************************************)
(* No callback and no deferred call outlives the command it is for, for    *)
(* the same daemons.                                                       *)
(***************************************************************************)
THEOREM CallbacksFindTheirTask == ~SendMayFail => (Spec => []NoDanglingCallback)
<1> SUFFICES ASSUME ~SendMayFail PROVE Spec => []NoDanglingCallback
  OBVIOUS
<1>1. IInv => NoDanglingCallback
  BY NoStrays, ConstantsAssumption
<1> QED BY <1>1, BookkeepingHolds, PTL

---------------------------------------------------------------------------
(* One opkg at a time.                                                     *)

\* What the steps and the callbacks do to m_locked and to who waits for opkg.
Takes(t) ==
    /\ ~locked /\ locked'
    /\ \E w \in {"ipkInstall", "ipkRemove"} : Await(t, w)

Frees(t) == UsesOpkg(t) /\ ~locked' /\ Await(t, "none")

Spares(t) ==
    /\ UNCHANGED locked
    /\ \/ UNCHANGED waiting
       \/ ~UsesOpkg(t) /\ \E w \in Waits \ {"ipkInstall", "ipkRemove"} : Await(t, w)

OpkgMove(t) == Takes(t) \/ Frees(t) \/ Spares(t)

\* A command waits for nothing while one of its steps runs.
LEMMA StepsWaitForNothing ==
    ASSUME IInv, NEW t \in Task, InStep(t)
    PROVE  waiting[t] = "none"
BY DEF IInv, FramesOK, InStep

LEMMA StepOpkgMoves ==
    ASSUME IInv, NEW t \in Task, Step(t)
    PROVE  OpkgMove(t)
<1> USE DEF OpkgMove, Takes, Spares, UsesOpkg, Sent, Spawn, NotSpawned, Waits, envVars
<1>0. waiting[t] = "none"
  <2>1. InStep(t)
    BY DEF Step, InStep, Starting, StartIpkParse, StartGetIpkInfo, StartAppClose, StartIpkInstall,
           StartUnpackagedInstall, StartServiceInstall, StartInstallSmack, StartRemove,
           StartRemoveJail, StartRemoveSmack, StartServiceUninstall, StartIpkRemove, StartDataRemove
  <2> QED BY <2>1, StepsWaitForNothing
<1>1. CASE StartIpkParse(t)
  BY <1>0, <1>1 DEF StartIpkParse
<1>2. CASE StartGetIpkInfo(t)
  BY <1>0, <1>2 DEF StartGetIpkInfo
<1>3. CASE StartAppClose(t)
  BY <1>0, <1>3 DEF StartAppClose
<1>4. CASE StartIpkInstall(t)
  BY <1>0, <1>4 DEF StartIpkInstall
<1>5. CASE StartUnpackagedInstall(t)
  BY <1>0, <1>5 DEF StartUnpackagedInstall
<1>6. CASE StartServiceInstall(t)
  BY <1>0, <1>6 DEF StartServiceInstall
<1>7. CASE StartInstallSmack(t)
  BY <1>0, <1>7 DEF StartInstallSmack
<1>8. CASE StartRemove(t)
  BY <1>0, <1>8 DEF StartRemove
<1>9. CASE StartRemoveJail(t)
  BY <1>0, <1>9 DEF StartRemoveJail
<1>10. CASE StartRemoveSmack(t)
  BY <1>0, <1>10 DEF StartRemoveSmack
<1>11. CASE StartServiceUninstall(t)
  BY <1>0, <1>11 DEF StartServiceUninstall
<1>12. CASE StartIpkRemove(t)
  BY <1>0, <1>12 DEF StartIpkRemove
<1>13. CASE StartDataRemove(t)
  BY <1>0, <1>13 DEF StartDataRemove
<1> QED BY <1>1, <1>2, <1>3, <1>4, <1>5, <1>6, <1>7, <1>8, <1>9, <1>10, <1>11, <1>12, <1>13 DEF Step

LEMMA ChildOpkgMoves ==
    ASSUME NEW t \in Task, Child(t)
    PROVE  OpkgMove(t)
<1> USE DEF OpkgMove, Frees, Spares, UsesOpkg, Receives, Waits, envVars
<1>1. CASE OnPackageExtracted(t)
  BY <1>1 DEF OnPackageExtracted
<1>2. CASE InstallProgress(t)
  BY <1>2 DEF InstallProgress
<1>3. CASE OnIpkInstalled(t)
  BY <1>3 DEF OnIpkInstalled
<1>4. CASE OnRemoveJail(t)
  BY <1>4 DEF OnRemoveJail
<1>5. CASE OnIpkRemoved(t)
  BY <1>5 DEF OnIpkRemoved
<1> QED BY <1>1, <1>2, <1>3, <1>4, <1>5 DEF Child, Exit

LEMMA ReplyOpkgMoves ==
    ASSUME NEW t \in Task, Reply(t)
    PROVE  OpkgMove(t)
<1> USE DEF OpkgMove, Spares, UsesOpkg, Receives, Waits, CloseGoesOn, CloseFails, envVars
<1>1. CASE OnAppInfo(t)
  BY <1>1 DEF OnAppInfo
<1>2. CASE OnCloseInfo(t)
  BY <1>2 DEF OnCloseInfo
<1>3. CASE OnCloseLock(t)
  BY <1>3 DEF OnCloseLock
<1>4. CASE OnAppClosed(t)
  BY <1>4 DEF OnAppClosed
<1>5. CASE OnServiceInstalled(t)
  BY <1>5 DEF OnServiceInstalled
<1>6. CASE OnServiceUninstalled(t)
  BY <1>6 DEF OnServiceUninstalled
<1>7. CASE OnDataRemoved(t)
  BY <1>7 DEF OnDataRemoved
<1> QED BY <1>1, <1>2, <1>3, <1>4, <1>5, <1>6, <1>7 DEF Reply

LEMMA NextKeepsOpkgExclusive ==
    ASSUME IInv, OpkgExclusive, [Next]_vars
    PROVE  OpkgExclusive'
<1>1. CASE Client \/ Deferred \/ (\E t \in Task : Unwind(t))
           \/ (\E p \in Place : OrphanExits(p)) \/ UNCHANGED vars
  <2>1. UNCHANGED <<waiting, locked>>
    <3>1. \A t, c, q : CreateTask(t, c, q) => UNCHANGED <<waiting, locked>>
      BY DEF CreateTask
    <3>2. CASE Client
      BY <3>1, <3>2 DEF Client, Install, Remove, FreeTasks
    <3>3. CASE Deferred
      BY <3>1, <3>3 DEF Deferred, DeferredProceed, DeferredServiceFailed, DeferredJailFailed,
                        ReleaseTask, Rollback, FreeTasks
    <3>4. CASE \E t \in Task : Unwind(t)
      BY <3>4 DEF Unwind, ProceedToStage, ProceedToEnd, ProceedFinished, FinishTask, FinishAgain,
                  ReportServiceFailure
    <3>5. CASE (\E p \in Place : OrphanExits(p)) \/ UNCHANGED vars
      BY <3>5 DEF OrphanExits, vars
    <3> QED BY <1>1, <3>2, <3>3, <3>4, <3>5
  <2> QED BY <2>1 DEF OpkgExclusive, UsesOpkg
<1>2. ASSUME NEW t \in Task, Step(t) \/ Child(t) \/ Reply(t) PROVE OpkgExclusive'
  <2>1. OpkgMove(t)
    BY <1>2, StepOpkgMoves, ChildOpkgMoves, ReplyOpkgMoves
  <2>2. waiting \in [Task -> Waits]
    BY DEF IInv, TypeOK
  <2>3. CASE Takes(t)
    BY <2>2, <2>3 DEF Takes, Await, OpkgExclusive, UsesOpkg
  <2>4. CASE Frees(t)
    BY <2>2, <2>4 DEF Frees, Await, OpkgExclusive, UsesOpkg
  <2>5. CASE Spares(t)
    BY <2>2, <2>5 DEF Spares, Await, OpkgExclusive, UsesOpkg
  <2> QED BY <2>1, <2>3, <2>4, <2>5 DEF OpkgMove
<1>3. CASE Crash
  BY <1>3 DEF Crash, OpkgExclusive, UsesOpkg
<1> QED BY <1>1, <1>2, <1>3 DEF Next

(***************************************************************************)
(* m_locked is set exactly while one command has an opkg child, and no two *)
(* have one, for any number of commands and whatever calls cannot be sent. *)
(***************************************************************************)
THEOREM OneOpkgAtATime == Spec => []OpkgExclusive
<1>1. Init => OpkgExclusive
  BY DEF Init, OpkgExclusive, UsesOpkg
<1>2. IInv /\ OpkgExclusive /\ [Next]_vars => OpkgExclusive'
  BY NextKeepsOpkgExclusive
<1>3. Spec => []IInv
  BY BookkeepingHolds
<1> QED BY <1>1, <1>2, <1>3, PTL DEF Spec

---------------------------------------------------------------------------
(* CommandRegistry is implemented.                                         *)

Phase == [a \in AppId |-> IF ~Known(a) THEN "idle"
                          ELSE IF finished[mapTask[a]] THEN "ended" ELSE "active"]

RollsBack(k) == deferred[k].call = "rollback"
IsOwed(a) == \E k \in DOMAIN deferred : RollsBack(k) /\ deferred[k].id = a
Owed == {a \in AppId : IsOwed(a)}

(***************************************************************************)
(* A deferred rollback follows the release of its id, and is the next call *)
(* the loop makes once that is done; the loop makes no other in between.   *)
(***************************************************************************)
RollbacksFollow ==
    \A k \in DOMAIN deferred : RollsBack(k) =>
        IF k = 1 THEN call = "none" /\ ~Known(deferred[k].id)
                 ELSE deferred[k - 1] = ReleaseCall(deferred[k].id)

\* No failed install is released and not undone while a callback runs or the loop may
\* dispatch something else.
LEMMA NothingIsBeingUndone ==
    ASSUME IInv, RollbacksFollow, call = "none" => MayDispatch
    PROVE  \A a \in Owed : Phase[a] # "idle"
<1> SUFFICES ASSUME NEW a \in AppId, NEW k \in DOMAIN deferred, RollsBack(k), deferred[k].id = a
             PROVE  Known(a)
  BY DEF Owed, IsOwed, Phase
<1>1. /\ deferred \in Seq(DeferredCall) /\ DOMAIN deferred = 1 .. Len(deferred) /\ Len(deferred) \in Nat
      /\ k = 1 => deferred # <<>> /\ Head(deferred) = deferred[1]
      /\ k # 1 => k - 1 \in DOMAIN deferred
  BY DEF IInv, TypeOK
<1>2. k # 1
  BY <1>1 DEF RollbacksFollow, RollsBack, MayDispatch
<1>3. deferred[k - 1] = ReleaseCall(a)
  BY <1>2 DEF RollbacksFollow
<1>4. IsReleased(a)
  BY <1>1, <1>2, <1>3 DEF IsReleased
<1> QED BY <1>4 DEF IInv, ReleaseOwed

\* A task's call that is appended is no rollback.
LEMMA TaskCallOwesNothing ==
    ASSUME deferred \in Seq(DeferredCall), NEW c \in TaskCalls, NEW t,
           deferred' = Append(deferred, TaskCall(c, t))
    PROVE  /\ Owed' = Owed
           /\ DOMAIN deferred = 1 .. Len(deferred) /\ Len(deferred) \in Nat
           /\ \A k \in DOMAIN deferred' : RollsBack(k)' =>
                  /\ k \in DOMAIN deferred /\ RollsBack(k) /\ deferred'[k] = deferred[k]
                  /\ k # 1 => deferred'[k - 1] = deferred[k - 1]
<1>1. /\ Len(deferred) \in Nat /\ DOMAIN deferred = 1 .. Len(deferred)
      /\ DOMAIN deferred' = 1 .. Len(deferred) + 1
      /\ \A k \in 1 .. Len(deferred) : deferred'[k] = deferred[k]
      /\ deferred'[Len(deferred) + 1] = TaskCall(c, t)
  OBVIOUS
<1>2. TaskCall(c, t).call # "rollback"
  BY DEF TaskCall, TaskCalls
<1>3. \A k \in DOMAIN deferred' : RollsBack(k)' =>
          /\ k \in DOMAIN deferred /\ RollsBack(k) /\ deferred'[k] = deferred[k]
          /\ k # 1 => deferred'[k - 1] = deferred[k - 1]
  BY <1>1, <1>2 DEF RollsBack
<1>4. \A k \in DOMAIN deferred : RollsBack(k) =>
          k \in DOMAIN deferred' /\ RollsBack(k)' /\ deferred'[k] = deferred[k]
  BY <1>1 DEF RollsBack
<1>5. \A a \in AppId : IsOwed(a)' <=> IsOwed(a)
  BY <1>3, <1>4 DEF IsOwed
<1> QED BY <1>1, <1>3, <1>5 DEF Owed

\* What the loop takes from the queue leaves the rollbacks where they are, one place on.
LEMMA HeadTakenOwes ==
    ASSUME deferred \in Seq(DeferredCall), deferred # <<>>, deferred' = Tail(deferred)
    PROVE  /\ \A k \in DOMAIN deferred' : RollsBack(k)' =>
                  /\ k \in Nat \ {0}
                  /\ k + 1 \in DOMAIN deferred /\ RollsBack(k + 1) /\ deferred'[k] = deferred[k + 1]
                  /\ k # 1 => deferred'[k - 1] = deferred[k]
           /\ deferred[1] = Head(deferred) /\ 1 \in DOMAIN deferred
           /\ Head(deferred).call # "rollback" => Owed' = Owed
<1>1. /\ Len(deferred) \in Nat \ {0} /\ DOMAIN deferred = 1 .. Len(deferred)
      /\ DOMAIN deferred' = 1 .. Len(deferred) - 1
      /\ \A k \in 1 .. Len(deferred) - 1 : deferred'[k] = deferred[k + 1]
      /\ deferred[1] = Head(deferred)
  OBVIOUS
<1>2. \A k \in DOMAIN deferred' : RollsBack(k)' =>
          /\ k \in Nat \ {0}
          /\ k + 1 \in DOMAIN deferred /\ RollsBack(k + 1) /\ deferred'[k] = deferred[k + 1]
          /\ k # 1 => deferred'[k - 1] = deferred[k]
  BY <1>1 DEF RollsBack
<1>3. ASSUME Head(deferred).call # "rollback" PROVE Owed' = Owed
  <2>1. \A k \in DOMAIN deferred : RollsBack(k) =>
            k - 1 \in DOMAIN deferred' /\ RollsBack(k - 1)' /\ deferred'[k - 1] = deferred[k]
    BY <1>1, <1>3 DEF RollsBack
  <2>2. \A a \in AppId : IsOwed(a)' <=> IsOwed(a)
    BY <1>2, <2>1 DEF IsOwed
  <2> QED BY <2>2 DEF Owed
<1> QED BY <1>1, <1>2, <1>3

\* The registry does not see a step that changes no entry and owes nothing else.
LEMMA UnseenByRegistry ==
    ASSUME UNCHANGED mapTask, Owed' = Owed,
           \A a \in AppId : Known(a) => finished'[mapTask[a]] = finished[mapTask[a]]
    PROVE  UNCHANGED Registry!vars
BY DEF Registry!vars, Owed, IsOwed, RollsBack, Known

\* A client's command is accepted.
LEMMA ClientIsAccept ==
    ASSUME IInv, RollbacksFollow, ConstantsAssumption, Client
    PROVE  RollbacksFollow' /\ [Registry!Next]_(Registry!vars)
<1>1. PICK c \in Command, t \in FreeTasks :
          MayDispatch /\ ~Known(c.id) /\ CreateTask(t, c, deferred)
  <2>0. NoPlace \in AnyPlace
    BY DEF NoPlace, AnyPlace, Package
  <2>1. CASE \E a \in AppId, v, w \in BOOLEAN : Install(a, v, w)
    <3>1. PICK a \in AppId, v \in BOOLEAN, w \in BOOLEAN : Install(a, v, w)
      BY <2>1
    <3> DEFINE c == [name |-> "InstallTask", id |-> a, verify |-> v, pwa |-> w, cleans |-> NoPlace]
    <3>2. c \in Command /\ c.id = a
      BY <2>0 DEF Command
    <3> QED BY <3>1, <3>2 DEF Install
  <2>2. CASE \E a \in AppId, v \in BOOLEAN : Remove(a, v)
    <3>1. PICK a \in AppId, v \in BOOLEAN : Remove(a, v)
      BY <2>2
    <3> DEFINE c == [name |-> "RemoveTask", id |-> a, verify |-> v, pwa |-> FALSE, cleans |-> NoPlace]
    <3>2. c \in Command /\ c.id = a
      BY <2>0 DEF Command
    <3> QED BY <3>1, <3>2 DEF Remove
  <2> QED BY <2>1, <2>2 DEF Client
<1> DEFINE a == c.id
<1>2. /\ a \in AppId /\ t \in Task /\ t # NoTask /\ ~finished[t]
      /\ mapTask \in [AppId -> Task \cup {NoTask}] /\ deferred \in Seq(DeferredCall)
  BY DEF Command, FreeTasks, IInv, TypeOK, EntriesOK, ConstantsAssumption
<1>3. /\ mapTask' = [mapTask EXCEPT ![a] = t] /\ finished' = finished /\ call' = call /\ call = "none"
      /\ deferred' = Append(deferred, TaskCall("proceed", t))
  BY <1>1 DEF CreateTask, loopVars, MayDispatch, AtRest
<1> HIDE DEF a
<1>4. /\ Owed' = Owed
      /\ \A k \in DOMAIN deferred' : RollsBack(k)' =>
             /\ k \in DOMAIN deferred /\ RollsBack(k) /\ deferred'[k] = deferred[k]
             /\ k # 1 => deferred'[k - 1] = deferred[k - 1]
  BY <1>2, <1>3, TaskCallOwesNothing DEF TaskCalls
<1>5. RollbacksFollow'
  <2>1. ASSUME deferred # <<>> PROVE ~RollsBack(1)
    BY <1>1, <1>2, <2>1 DEF MayDispatch, RollsBack
  <2>2. 1 \in DOMAIN deferred => deferred # <<>>
    OBVIOUS
  <2> QED BY <1>4, <2>1, <2>2 DEF RollbacksFollow
<1>6. Phase' = [Phase EXCEPT ![a] = "active"] /\ Phase[a] = "idle"
  BY <1>1, <1>2, <1>3 DEF Phase, Known, a
<1>7. \A b \in Owed : Phase[b] # "idle"
  BY <1>1, NothingIsBeingUndone
<1>8. Registry!Accept(a)
  BY <1>2, <1>4, <1>6, <1>7 DEF Registry!Accept, Registry!Undoing, Phase, Owed, IsOwed, RollsBack
<1> QED BY <1>2, <1>5, <1>8 DEF Registry!Next

\* The loop makes the oldest deferred call.
LEMMA DeferredIsReleaseOrUndo ==
    ASSUME IInv, RollbacksFollow, ConstantsAssumption, Deferred
    PROVE  RollbacksFollow' /\ [Registry!Next]_(Registry!vars)
<1> DEFINE d == Head(deferred)
<1>1. /\ deferred # <<>> /\ call = "none" /\ deferred \in Seq(DeferredCall) /\ d \in DeferredCall
      /\ mapTask \in [AppId -> Task \cup {NoTask}]
  BY DEF Deferred, DeferredProceed, DeferredServiceFailed, DeferredJailFailed, ReleaseTask, Rollback,
         AtRest, IInv, TypeOK
<1>2. deferred[1] = d /\ 1 \in DOMAIN deferred
  BY <1>1
<1>3. ASSUME d.call # "rollback" PROVE \A a \in Owed : Phase[a] # "idle"
  BY <1>1, <1>3, NothingIsBeingUndone DEF MayDispatch, AtRest
<1>4. CASE DeferredProceed \/ DeferredServiceFailed \/ DeferredJailFailed
  <2>1. /\ d.call \in TaskCalls /\ deferred' = Tail(deferred) /\ UNCHANGED <<mapTask, finished>>
    BY <1>4 DEF DeferredProceed, DeferredServiceFailed, DeferredJailFailed, TaskCalls, taskVars
  <2>2. d.call # "rollback" /\ \A a : d # ReleaseCall(a)
    BY <2>1 DEF TaskCalls, ReleaseCall
  <2>3. /\ Owed' = Owed
        /\ \A k \in DOMAIN deferred' : RollsBack(k)' =>
               /\ k \in Nat \ {0}
               /\ k + 1 \in DOMAIN deferred /\ RollsBack(k + 1) /\ deferred'[k] = deferred[k + 1]
               /\ k # 1 => deferred'[k - 1] = deferred[k]
    BY <1>1, <2>1, <2>2, HeadTakenOwes
  <2>4. RollbacksFollow'
    <3>1. ASSUME NEW k \in DOMAIN deferred', RollsBack(k)'
          PROVE  k # 1 /\ deferred'[k - 1] = ReleaseCall(deferred'[k].id)
      <4>1. /\ k \in Nat \ {0} /\ k + 1 \in DOMAIN deferred /\ RollsBack(k + 1)
            /\ deferred'[k] = deferred[k + 1] /\ (k # 1 => deferred'[k - 1] = deferred[k])
        BY <2>3, <3>1
      <4>2. deferred[k] = ReleaseCall(deferred[k + 1].id)
        BY <4>1 DEF RollbacksFollow
      <4>3. k # 1
        BY <1>2, <2>2, <4>2
      <4> QED BY <4>1, <4>2, <4>3
    <3> QED BY <3>1 DEF RollbacksFollow
  <2> QED BY <2>1, <2>3, <2>4, UnseenByRegistry
<1>5. CASE ReleaseTask
  <2>1. d.call = "release" /\ deferred' = Tail(deferred) /\ UNCHANGED loopVars
        /\ mapTask' = [mapTask EXCEPT ![d.id] = NoTask]
        /\ \A u \in Task : u # mapTask[d.id] => finished'[u] = finished[u]
    BY <1>5 DEF ReleaseTask, taskVars, Destroy, IInv, TypeOK
  <2>2. d = ReleaseCall(d.id) /\ d.id \in Package
    <3>1. \A e \in DeferredCall : e.call = "release" => e = ReleaseCall(e.id) /\ e.id \in Package
      BY DEF DeferredCall, TaskCall, ReleaseCall, RollbackCall, TaskCalls
    <3> QED BY <1>1, <2>1, <3>1
  <2>3. d.id \in AppId /\ Known(d.id) /\ finished[mapTask[d.id]] /\ mapTask[d.id] \in Task
    <3>1. IsReleased(d.id)
      BY <1>2, <2>2 DEF IsReleased
    <3>2. d.id \in AppId
      BY <2>2, <3>1 DEF IInv, ReleasesAnId, Package
    <3>3. Known(d.id) /\ finished[mapTask[d.id]]
      BY <3>1, <3>2 DEF IInv, ReleaseOwed
    <3> QED BY <1>1, <3>2, <3>3 DEF Known
  <2>4. /\ Owed' = Owed
        /\ \A k \in DOMAIN deferred' : RollsBack(k)' =>
               /\ k \in Nat \ {0}
               /\ k + 1 \in DOMAIN deferred /\ RollsBack(k + 1) /\ deferred'[k] = deferred[k + 1]
               /\ k # 1 => deferred'[k - 1] = deferred[k]
    BY <1>1, <2>1, HeadTakenOwes
  <2>5. \A b \in Owed : Phase[b] # "idle"
    BY <1>3, <2>1
  <2>6. PICK a \in AppId, t \in Task :
            a = d.id /\ t = mapTask[a] /\ Known(a) /\ finished[t] /\ d = ReleaseCall(a)
    BY <2>2, <2>3
  <2>7. \A b \in AppId \ {a} : Known(b) => mapTask[b] \in Task /\ mapTask[b] # t
    BY <1>1, <2>6 DEF IInv, EntriesOK, Known
  <2> HIDE DEF d
  <2>8. ~Known(a)' /\ \A b \in AppId \ {a} : mapTask'[b] = mapTask[b]
    BY <1>1, <2>1, <2>6 DEF Known
  <2>9. RollbacksFollow'
    <3>1. ASSUME NEW k \in DOMAIN deferred', RollsBack(k)'
          PROVE  IF k = 1 THEN (call = "none" /\ ~Known(deferred[k].id))'
                          ELSE deferred'[k - 1] = ReleaseCall(deferred'[k].id)
      <4>1. /\ k \in Nat \ {0} /\ k + 1 \in DOMAIN deferred /\ RollsBack(k + 1)
            /\ deferred'[k] = deferred[k + 1] /\ (k # 1 => deferred'[k - 1] = deferred[k])
        BY <2>4, <3>1
      <4>2. deferred[k] = ReleaseCall(deferred[k + 1].id)
        BY <4>1 DEF RollbacksFollow
      <4>3. CASE k = 1
        <5>1. ReleaseCall(deferred[k + 1].id) = ReleaseCall(a)
          BY <1>2, <2>6, <4>2, <4>3
        <5>2. deferred[k + 1].id = a
          BY <5>1 DEF ReleaseCall
        <5> QED BY <1>1, <2>1, <2>8, <4>1, <4>3, <5>2 DEF loopVars, Known
      <4> QED BY <4>1, <4>2, <4>3
    <3> QED BY <3>1 DEF RollbacksFollow
  <2>10. Phase' = [Phase EXCEPT ![a] = "idle"] /\ Phase[a] = "ended"
    <3>1. \A b \in AppId \ {a} : Phase'[b] = Phase[b]
      BY <2>1, <2>6, <2>7, <2>8 DEF Phase, Known
    <3> QED BY <2>6, <2>8, <3>1 DEF Phase
  <2>11. Registry!Release(a)
    BY <2>4, <2>5, <2>10 DEF Registry!Release, Registry!Undoing, Phase, Owed, IsOwed, RollsBack
  <2> QED BY <2>9, <2>11 DEF Registry!Next
<1>6. CASE Rollback
  <2>1. d.call = "rollback" /\ d.id \in AppId /\ RollsBack(1) /\ Tail(deferred) \in Seq(DeferredCall)
        /\ d.verify \in BOOLEAN /\ d.unpacked \in AnyPlace
    BY <1>1, <1>2, <1>6, HeadType DEF Rollback, RollsBack, IInv
  <2>2. PICK a \in AppId : a = d.id /\ ~Known(a)
    BY <1>2, <2>1 DEF RollbacksFollow
  <2> DEFINE c == [name |-> "RemoveTask", id |-> a, verify |-> d.verify, pwa |-> FALSE,
                   cleans |-> d.unpacked]
  <2>3. PICK t \in FreeTasks : CreateTask(t, c, Tail(deferred))
    BY <1>6, <2>2 DEF Rollback
  <2>4. t \in Task /\ t # NoTask /\ ~finished[t]
    BY DEF FreeTasks, IInv, EntriesOK, ConstantsAssumption
  <2>5. /\ mapTask' = [mapTask EXCEPT ![a] = t] /\ finished' = finished
        /\ deferred' = Append(Tail(deferred), TaskCall("proceed", t))
    BY <2>3 DEF CreateTask
  <2>6. /\ Len(deferred) \in Nat \ {0} /\ DOMAIN deferred = 1 .. Len(deferred)
        /\ DOMAIN deferred' = 1 .. Len(deferred)
        /\ \A k \in 1 .. Len(deferred) - 1 : deferred'[k] = deferred[k + 1]
        /\ deferred'[Len(deferred)] = TaskCall("proceed", t)
    <3> DEFINE q == Tail(deferred)
    <3>1. /\ Len(deferred) \in Nat \ {0} /\ DOMAIN deferred = 1 .. Len(deferred)
          /\ Len(q) = Len(deferred) - 1 /\ \A k \in 1 .. Len(deferred) - 1 : q[k] = deferred[k + 1]
      BY <1>1
    <3> HIDE DEF q
    <3> QED BY <2>1, <2>5, <3>1 DEF q
  <2> HIDE DEF c, d
  <2>7. /\ TaskCall("proceed", t).call # "rollback"
        /\ \A k \in 1 .. Len(deferred) : RollsBack(k)' =>
               k \in 1 .. Len(deferred) - 1 /\ RollsBack(k + 1)
    BY <2>6 DEF TaskCall, RollsBack
  \* Every other rollback is behind the release of its id.
  <2>8. ASSUME NEW k \in 1 .. Len(deferred), k # 1, RollsBack(k)
        PROVE  /\ k - 1 \in DOMAIN deferred /\ deferred[k - 1] = ReleaseCall(deferred[k].id)
               /\ k # 2 /\ deferred[k].id # a
    <3>1. k - 1 \in DOMAIN deferred /\ deferred[k - 1] = ReleaseCall(deferred[k].id)
      BY <2>6, <2>8 DEF RollbacksFollow
    <3>2. k # 2
      BY <1>2, <2>1, <3>1 DEF ReleaseCall
    <3>3. ASSUME deferred[k].id = a PROVE FALSE
      <4>1. IsReleased(a)
        BY <3>1, <3>3 DEF IsReleased
      <4> QED BY <2>1, <2>2, <4>1 DEF IInv, ReleaseOwed
    <3> QED BY <3>1, <3>2, <3>3
  <2>9. RollbacksFollow'
    <3>1. ASSUME NEW k \in DOMAIN deferred', RollsBack(k)'
          PROVE  k # 1 /\ deferred'[k - 1] = ReleaseCall(deferred'[k].id)
      <4>1. k \in 1 .. Len(deferred) - 1 /\ RollsBack(k + 1) /\ deferred'[k] = deferred[k + 1]
        BY <2>6, <2>7, <3>1
      <4>2. k + 1 \in 1 .. Len(deferred) /\ k + 1 # 1
        BY <2>6, <4>1
      <4>3. k + 1 # 2 /\ deferred[k + 1 - 1] = ReleaseCall(deferred[k + 1].id)
        BY <2>8, <4>1, <4>2
      <4>4. k # 1 /\ deferred'[k - 1] = deferred[k]
        BY <2>6, <4>1, <4>3
      <4> QED BY <2>6, <4>1, <4>3, <4>4
    <3> QED BY <3>1 DEF RollbacksFollow
  <2>10. Owed' = Owed \ {a} /\ a \in Owed
    <3>1. a \in Owed
      BY <1>2, <2>1, <2>2 DEF Owed, IsOwed
    <3>2. ASSUME NEW b \in AppId, IsOwed(b)' PROVE IsOwed(b) /\ b # a
      <4>1. PICK k \in 1 .. Len(deferred) : RollsBack(k)' /\ deferred'[k].id = b
        BY <2>6, <3>2 DEF IsOwed
      <4>2. k + 1 \in 1 .. Len(deferred) /\ k + 1 # 1 /\ RollsBack(k + 1) /\ deferred[k + 1].id = b
        BY <2>6, <2>7, <4>1
      <4> QED BY <2>6, <2>8, <4>2 DEF IsOwed
    <3>3. ASSUME NEW b \in AppId, IsOwed(b), b # a PROVE IsOwed(b)'
      <4>1. PICK k \in 1 .. Len(deferred) : RollsBack(k) /\ deferred[k].id = b
        BY <2>6, <3>3 DEF IsOwed
      <4>2. k # 1
        BY <1>2, <2>2, <3>3, <4>1
      <4>3. k - 1 \in 1 .. Len(deferred) - 1 /\ deferred'[k - 1] = deferred[k]
        BY <2>6, <4>2
      <4> QED BY <2>6, <4>1, <4>3 DEF IsOwed, RollsBack
    <3> QED BY <3>1, <3>2, <3>3 DEF Owed
  <2>11. Phase' = [Phase EXCEPT ![a] = "active"] /\ Phase[a] = "idle"
    BY <1>1, <2>1, <2>2, <2>4, <2>5 DEF Phase, Known
  <2>12. Registry!Undo(a)
    BY <2>1, <2>10, <2>11 DEF Registry!Undo, Phase, Owed, IsOwed, RollsBack
  <2> QED BY <2>1, <2>9, <2>12 DEF Registry!Next
<1> QED BY <1>4, <1>5, <1>6 DEF Deferred

\* The steps and the callbacks go unnoticed.
LEMMA MovesAreUnseen ==
    ASSUME IInv, RollbacksFollow, ConstantsAssumption, NEW t \in Task,
           Quiet, Move(t), call = "none" => MayDispatch
    PROVE  RollbacksFollow' /\ UNCHANGED Registry!vars
<1>1. deferred \in Seq(DeferredCall) /\ UNCHANGED <<mapTask, finished>>
  BY DEF IInv, TypeOK, Quiet
<1>2. ~(1 \in DOMAIN deferred /\ RollsBack(1))
  <2>1. CASE call = "none"
    <3>1. deferred # <<>> => Head(deferred).call # "rollback"
      BY <2>1 DEF MayDispatch
    <3>2. 1 \in DOMAIN deferred => deferred # <<>> /\ deferred[1] = Head(deferred)
      BY <1>1
    <3> QED BY <3>1, <3>2 DEF RollsBack
  <2>2. CASE call # "none"
    BY <2>2 DEF RollbacksFollow
  <2> QED BY <2>1, <2>2
<1>3. CASE UNCHANGED deferred
  <2>1. Owed' = Owed
    BY <1>3 DEF Owed, IsOwed, RollsBack
  <2>2. RollbacksFollow'
    BY <1>2, <1>3 DEF RollbacksFollow, RollsBack
  <2> QED BY <1>1, <2>1, <2>2, UnseenByRegistry
<1>4. CASE \E c \in TaskCalls : deferred' = Append(deferred, TaskCall(c, t))
  <2>1. PICK c \in TaskCalls : deferred' = Append(deferred, TaskCall(c, t))
    BY <1>4
  <2>2. /\ Owed' = Owed
        /\ \A k \in DOMAIN deferred' : RollsBack(k)' =>
               /\ k \in DOMAIN deferred /\ RollsBack(k) /\ deferred'[k] = deferred[k]
               /\ k # 1 => deferred'[k - 1] = deferred[k - 1]
    BY <1>1, <2>1, TaskCallOwesNothing
  <2>3. RollbacksFollow'
    BY <1>2, <2>2 DEF RollbacksFollow
  <2> QED BY <1>1, <2>2, <2>3, UnseenByRegistry
<1> QED BY <1>3, <1>4 DEF Move, Dispatched, StillWaits, Suspended, GoesOnLater, GoesOn,
                          GoesOnThenFails, Fails

\* So does the rest of a callback, until the command ends.
LEMMA UnwindIsEnd ==
    ASSUME IInv, RollbacksFollow, ConstantsAssumption, NEW t \in Task, Unwind(t)
    PROVE  RollbacksFollow' /\ [Registry!Next]_(Registry!vars)
<1>1. deferred \in Seq(DeferredCall) /\ call # "none" /\ current = t
      /\ mapTask \in [AppId -> Task \cup {NoTask}] /\ finished \in [Task -> BOOLEAN]
  BY DEF IInv, TypeOK, Unwind, ProceedToStage, ProceedToEnd, ProceedFinished, FinishTask, Finishing,
         FinishAgain, ReportServiceFailure
<1>2. ~(1 \in DOMAIN deferred /\ RollsBack(1))
  BY <1>1 DEF RollbacksFollow
<1>3. CASE ProceedToStage(t) \/ ProceedToEnd(t) \/ ProceedFinished(t) \/ FinishAgain(t)
           \/ ReportServiceFailure(t)
  <2>1. UNCHANGED <<mapTask, deferred>>
    BY <1>3 DEF ProceedToStage, ProceedToEnd, ProceedFinished, FinishAgain, ReportServiceFailure
  \* An object that is destroyed here has no entry.
  <2>4. \A a \in AppId : Known(a) => finished'[mapTask[a]] = finished[mapTask[a]]
    <3>1. CASE ~ProceedFinished(t)
      BY <1>3, <3>1 DEF ProceedToStage, ProceedToEnd, FinishAgain, ReportServiceFailure, taskVars
    <3>2. CASE ProceedFinished(t)
      <4>1. finished' = finished \/ (t \notin {mapTask[a] : a \in AppId} /\ Destroy(t))
        BY <3>2 DEF ProceedFinished, taskVars
      <4> QED BY <1>1, <4>1 DEF Destroy, Known
    <3> QED BY <3>1, <3>2
  <2>2. Owed' = Owed
    BY <2>1 DEF Owed, IsOwed, RollsBack
  <2>3. RollbacksFollow'
    BY <1>2, <2>1 DEF RollbacksFollow, RollsBack
  <2> QED BY <2>1, <2>2, <2>3, <2>4, UnseenByRegistry
<1>4. CASE FinishTask(t)
  <2>1. /\ call = "finish" /\ current = t /\ ~finished[t] /\ cmd[t] # NoCommand
        /\ mapTask' = mapTask /\ finished' = [finished EXCEPT ![t] = TRUE]
        /\ deferred' = deferred \o FinishCalls(t)
    BY <1>1, <1>4 DEF FinishTask, Finishing, IInv, FramesOK, ConstantsAssumption
  <2>2. PICK a \in AppId : a = cmd[t].id /\ mapTask[a] = t /\ Known(a)
    BY <2>1 DEF IInv, EntriesOK, Stray, Known, ConstantsAssumption
  <2>3. PICK m \in {1, 2} :
            /\ Len(FinishCalls(t)) = m /\ DOMAIN FinishCalls(t) = 1 .. m
            /\ FinishCalls(t)[1] = ReleaseCall(a)
            /\ m = 2 => FinishCalls(t)[2] = RollbackCall(a, cmd[t].verify, PlaceOf(t))
    BY <2>2 DEF FinishCalls
  <2> DEFINE n == Len(deferred)
  <2>4. n \in Nat /\ DOMAIN deferred = 1 .. n
    BY <1>1
  <2>5. /\ DOMAIN deferred' = 1 .. n + m
        /\ \A k \in 1 .. n : deferred'[k] = deferred[k]
        /\ deferred'[n + 1] = ReleaseCall(a)
        /\ m = 2 => deferred'[n + 2] = RollbackCall(a, cmd[t].verify, PlaceOf(t))
    <3>1. FinishCalls(t) \in Seq({FinishCalls(t)[k] : k \in 1 .. 2})
      BY <2>3 DEF FinishCalls
    <3> QED BY <1>1, <2>1, <2>3, <2>4, <3>1
  <2> HIDE DEF n
  <2>6. /\ ReleaseCall(a).call # "rollback"
        /\ RollbackCall(a, cmd[t].verify, PlaceOf(t)).id = a
        /\ RollbackCall(a, cmd[t].verify, PlaceOf(t)).call = "rollback"
    BY DEF ReleaseCall, RollbackCall
  <2>7. ASSUME NEW k \in DOMAIN deferred', RollsBack(k)'
        PROVE  /\ k # 1 /\ deferred'[k - 1] = ReleaseCall(deferred'[k].id)
               /\ \/ k \in DOMAIN deferred /\ RollsBack(k) /\ deferred'[k] = deferred[k]
                  \/ m = 2 /\ deferred'[k].id = a
    <3>1. k \in 1 .. n \/ k = n + 1 \/ (k = n + 2 /\ m = 2)
      BY <2>3, <2>4, <2>5
    <3>2. CASE k \in 1 .. n
      <4>1. RollsBack(k) /\ deferred'[k] = deferred[k] /\ k \in DOMAIN deferred
        BY <2>4, <2>5, <2>7, <3>2 DEF RollsBack
      <4>2. k # 1 /\ deferred[k - 1] = ReleaseCall(deferred[k].id)
        BY <1>2, <4>1 DEF RollbacksFollow
      <4>3. deferred'[k - 1] = deferred[k - 1]
        BY <2>4, <2>5, <3>2, <4>2
      <4> QED BY <4>1, <4>2, <4>3
    <3>3. k # n + 1
      BY <2>5, <2>6, <2>7 DEF RollsBack
    <3>4. CASE k = n + 2 /\ m = 2
      BY <2>4, <2>5, <2>6, <3>4
    <3> QED BY <3>1, <3>2, <3>3, <3>4
  <2>8. RollbacksFollow'
    BY <2>7 DEF RollbacksFollow
  <2>9. Owed' \in {Owed, Owed \cup {a}}
    <3>1. ASSUME NEW b \in AppId, IsOwed(b) PROVE IsOwed(b)'
      <4>1. PICK k \in 1 .. n : RollsBack(k) /\ deferred[k].id = b
        BY <2>4, <3>1 DEF IsOwed
      <4>2. k \in DOMAIN deferred' /\ deferred'[k] = deferred[k]
        BY <2>3, <2>4, <2>5
      <4> QED BY <4>1, <4>2 DEF IsOwed, RollsBack
    <3>2. ASSUME NEW b \in AppId, IsOwed(b)' PROVE IsOwed(b) \/ b = a
      BY <2>7, <3>2 DEF IsOwed
    <3> QED BY <3>1, <3>2 DEF Owed
  <2>10. Phase' = [Phase EXCEPT ![a] = "ended"] /\ Phase[a] = "active"
    <3>1. \A b \in AppId \ {a} : Known(b) => mapTask[b] \in Task /\ mapTask[b] # t
      BY <1>1, <2>2 DEF IInv, EntriesOK, Known
    <3>2. \A b \in AppId \ {a} : Phase'[b] = Phase[b]
      BY <1>1, <2>1, <3>1 DEF Phase, Known
    <3>3. Known(a)' /\ finished'[mapTask'[a]]
      BY <1>1, <2>1, <2>2 DEF Known
    <3>4. Phase'[a] = "ended" /\ Phase[a] = "active"
      BY <2>1, <2>2, <3>3 DEF Phase
    <3> QED BY <3>2, <3>4 DEF Phase
  <2>11. \A b \in Owed : Phase[b] # "idle"
    BY <1>1, NothingIsBeingUndone
  <2>12. Registry!End(a)
    BY <2>9, <2>10, <2>11 DEF Registry!End, Registry!Undoing, Phase, Owed, IsOwed, RollsBack
  <2> QED BY <2>8, <2>12 DEF Registry!Next
<1> QED BY <1>3, <1>4 DEF Unwind

\* Every step is a step of the registry or goes unnoticed.
LEMMA NextIsRegistryNext ==
    ASSUME IInv, RollbacksFollow, ConstantsAssumption, [Next]_vars
    PROVE  RollbacksFollow' /\ [Registry!Next]_(Registry!vars)
<1>1. CASE Client \/ Deferred
  BY <1>1, ClientIsAccept, DeferredIsReleaseOrUndo
<1>2. ASSUME NEW t \in Task, Unwind(t)
      PROVE  RollbacksFollow' /\ [Registry!Next]_(Registry!vars)
  BY <1>2, UnwindIsEnd
<1>3. ASSUME NEW t \in Task, Step(t) \/ Child(t) \/ Reply(t)
      PROVE  RollbacksFollow' /\ [Registry!Next]_(Registry!vars)
  <2>1. Quiet /\ Move(t)
    BY <1>3, StepMoves, ChildMoves, ReplyMoves
  <2>2. Child(t) \/ Reply(t) => MayDispatch
    BY DEF Child, Exit, Reply, Receives, OnPackageExtracted, InstallProgress, OnIpkInstalled,
           OnRemoveJail, OnIpkRemoved, OnAppInfo, OnCloseInfo, OnCloseLock, OnAppClosed,
           OnServiceInstalled, OnServiceUninstalled, OnDataRemoved
  <2>3. Step(t) => call = "step"
    BY DEF Step, Starting, StartIpkParse, StartGetIpkInfo, StartAppClose, StartIpkInstall,
           StartUnpackagedInstall, StartServiceInstall, StartInstallSmack, StartRemove,
           StartRemoveJail, StartRemoveSmack, StartServiceUninstall, StartIpkRemove, StartDataRemove
  <2> QED BY <1>3, <2>1, <2>2, <2>3, MovesAreUnseen
<1>4. CASE Crash
  <2>1. Owed' = {} /\ Phase' = [a \in AppId |-> "idle"] /\ RollbacksFollow'
    BY <1>4 DEF Crash, Owed, IsOwed, Phase, Known, RollbacksFollow
  <2>2. Registry!Forget
    BY <2>1 DEF Registry!Forget, Phase, Owed, IsOwed, RollsBack
  <2> QED BY <2>1, <2>2 DEF Registry!Next
<1>5. CASE UNCHANGED vars \/ \E p \in Place : OrphanExits(p)
  <2>1. UNCHANGED <<mapTask, finished, deferred, call>>
    BY <1>5 DEF vars, OrphanExits, taskVars, loopVars
  <2>2. Owed' = Owed
    BY <2>1 DEF Owed, IsOwed, RollsBack
  <2>3. RollbacksFollow'
    BY <2>1 DEF RollbacksFollow, RollsBack, Known
  <2> QED BY <2>1, <2>2, <2>3, UnseenByRegistry
<1> QED BY <1>1, <1>2, <1>3, <1>4, <1>5 DEF Next

(***************************************************************************)
(* The daemon is a CommandRegistry, whatever calls cannot be sent: an id   *)
(* has one command at a time, which ends once and gives its entry back     *)
(* after that, and nothing happens between the release of a failed install *)
(* and the command that undoes it.                                         *)
(***************************************************************************)
THEOREM RegistryIsImplemented == Spec => ImplementsRegistry
<1> USE ConstantsAssumption
<1>1. Init => RollbacksFollow /\ Registry!Init
  <2> SUFFICES ASSUME Init PROVE RollbacksFollow /\ Registry!Init
    OBVIOUS
  <2>1. Owed = {} /\ Phase = [a \in AppId |-> "idle"] /\ RollbacksFollow
    BY DEF Init, Owed, IsOwed, Phase, Known, RollbacksFollow
  <2> QED BY <2>1 DEF Registry!Init, Phase, Owed, IsOwed, RollsBack
<1>2. IInv /\ RollbacksFollow /\ [Next]_vars => RollbacksFollow' /\ [Registry!Next]_(Registry!vars)
  BY NextIsRegistryNext
<1>3. Spec => []IInv
  BY BookkeepingHolds
<1> QED BY <1>1, <1>2, <1>3, PTL DEF Spec, ImplementsRegistry, Registry!Spec

=============================================================================
