------------------------------ MODULE AppInstaller ------------------------------
(***************************************************************************)
(* The command engine of appinstalld: AppInstaller (the map of commands in *)
(* flight), Task (one command walking its step table), the steps under     *)
(* src/step, AppInstallerUtility (the one opkg child and its lock) and the *)
(* deferred calls of Utils::async.                                         *)
(*                                                                         *)
(* The daemon is one thread around a GLib main loop.  What the loop        *)
(* dispatches runs to completion, so a callback is modelled by a chain of  *)
(* actions during which nothing else is enabled: call names the function   *)
(* entered next on behalf of the command current, and unwind what an outer *)
(* frame of Task::proceed still does once the nested calls have returned.  *)
(* Between callbacks (AtRest) the loop may dispatch a client's command, a  *)
(* reply from the bus, the exit of a child or the oldest deferred call.    *)
(***************************************************************************)
EXTENDS Naturals, Sequences, FiniteSets, TaskSteps

CONSTANTS
    AppId,          \* application ids; a package has the name of an id
    NoApp,          \* the empty package id
    Task,           \* identities of Task objects, reused once destroyed
    NoTask,
    InstallSteps,   \* StepSettings::m_mapInstallSteps
    RemoveSteps,    \* StepSettings::m_mapRemoveSteps
    DevIds,         \* ids clients name in dev/install and dev/remove
    PwaIds,         \* ids clients install from an unpackaged directory
    Privileged,     \* ids with a prefix reserved to the system
    LunaDirs,       \* values of verify whose luna directories are configured
    SendMayFail,    \* whether a luna call may fail to be sent
    MaxCrashes      \* bound on crashes of the daemon

Package == AppId \cup {NoApp}

\* An install root (TRUE: the verified one) and a package in it.
Place == BOOLEAN \X AppId
AnyPlace == BOOLEAN \X Package
NoPlace == <<FALSE, NoApp>>

Command ==
    [name : {"InstallTask", "RemoveTask"}, id : AppId, verify : BOOLEAN,
     pwa : BOOLEAN, cleans : AnyPlace]

NoCommand ==
    [name |-> "none", id |-> NoApp, verify |-> FALSE, pwa |-> FALSE, cleans |-> NoPlace]

ASSUME ConstantsAssumption ==
    /\ NoApp \notin AppId /\ NoTask \notin Task
    /\ DevIds \subseteq AppId /\ PwaIds \subseteq AppId /\ Privileged \subseteq AppId
    /\ LunaDirs \subseteq BOOLEAN /\ SendMayFail \in BOOLEAN /\ MaxCrashes \in Nat

ASSUME StepTablesAssumption == IsStepTable(InstallSteps) /\ IsStepTable(RemoveSteps)

ASSUME ErrorsEndCommands == EndsAtErrors(InstallSteps) /\ EndsAtErrors(RemoveSteps)

ASSUME StepTablesInOrder == InstallsInOrder(InstallSteps) /\ RemovesInOrder(RemoveSteps)

VARIABLES
    \* AppInstaller
    mapTask,        \* m_mapTask: id -> Task, NoTask where the id has no entry
    \* Task, one entry per object
    cmd,            \* what was asked, NoCommand while the object does not exist
    pkg,            \* m_packageId
    step,           \* m_step
    error,          \* m_errorCode # 0
    finished,       \* m_finished
    unpacked,       \* m_unpacked
    held,           \* objects whose lockApp(true) was granted
    waiting,        \* the reply or child exit the command's step waits for
    \* the main loop
    deferred,       \* Utils::async: calls not yet made, oldest first
    call, current, unwind,
    \* AppInstallerUtility
    locked,         \* m_locked
    orphans,        \* packages an opkg child of a crashed daemon still works on
    \* the device
    appLock,        \* packages locked in applicationManager
    disk,           \* Place -> what is in the directory of the app there
    crashes

taskVars == <<pkg, step, error, finished, unpacked, held>>
loopVars == <<call, current, unwind>>
envVars  == <<orphans, appLock, disk, crashes>>
vars == <<mapTask, cmd, taskVars, waiting, deferred, loopVars, locked, envVars>>

Waits ==
    {"none", "extract", "appInfo", "closeInfo", "closeLock", "closeApp", "ipkInstall",
     "serviceInstall", "jail", "serviceUninstall", "ipkRemove", "dataRemove"}

\* A lambda passed to Utils::async with what it captured.
TaskCall(c, t) ==
    [call |-> c, task |-> t, id |-> NoApp, verify |-> FALSE, unpacked |-> NoPlace]
ReleaseCall(a) ==
    [call |-> "release", task |-> NoTask, id |-> a, verify |-> FALSE, unpacked |-> NoPlace]
RollbackCall(a, v, place) ==
    [call |-> "rollback", task |-> NoTask, id |-> a, verify |-> v, unpacked |-> place]

TaskCalls == {"proceed", "jailFailed", "serviceFailed"}

DeferredCall ==
    {TaskCall(c, t) : c \in TaskCalls, t \in Task}
    \cup {ReleaseCall(a) : a \in Package}
    \cup {RollbackCall(a, v, place) : a \in AppId, v \in BOOLEAN, place \in AnyPlace}

Init ==
    /\ mapTask = [a \in AppId |-> NoTask]
    /\ cmd = [t \in Task |-> NoCommand]
    /\ pkg = [t \in Task |-> NoApp]
    /\ step = [t \in Task |-> "Unknown"]
    /\ error = [t \in Task |-> FALSE]
    /\ finished = [t \in Task |-> FALSE]
    /\ unpacked = [t \in Task |-> FALSE]
    /\ held = {}
    /\ waiting = [t \in Task |-> "none"]
    /\ deferred = <<>>
    /\ call = "none" /\ current = NoTask /\ unwind = "none"
    /\ locked = FALSE
    /\ orphans = {}
    /\ appLock = {}
    /\ disk = [p \in Place |-> "absent"]
    /\ crashes = 0

---------------------------------------------------------------------------
(* The call stack of one callback.                                         *)

AtRest == call = "none"

(***************************************************************************)
(* What the loop may dispatch between callbacks.  A deferred call is a     *)
(* timeout source of interval 0: the sources fire in the order they were   *)
(* created, and a call created right after another by the same callback    *)
(* is due in the same iteration with no other source between the two.      *)
(* Only the rollback, created right after a release, relies on it.         *)
(***************************************************************************)
MayDispatch == AtRest /\ (deferred # <<>> => Head(deferred).call # "rollback")

\* task->proceed(), as the last thing the callback or the step does.
Proceed(t) == call' = "proceed" /\ current' = t /\ UNCHANGED unwind

\* task->proceed(); return false: the frame of Task::proceed below finishes the task.
ProceedThenFail(t) == call' = "proceed" /\ current' = t /\ unwind' = "finish"

\* A step's proceed returns false: Task::proceed calls finish.
Fail == call' = "finish" /\ UNCHANGED <<current, unwind>>

\* The innermost frame returns.
Return ==
    /\ call' = unwind /\ unwind' = "none"
    /\ current' = IF unwind = "none" THEN NoTask ELSE current

\* Task::setStep and Task::setError.
SetStep(t, s) == step' = [step EXCEPT ![t] = IF finished[t] THEN @ ELSE s]
SetError(t, s) == SetStep(t, s) /\ error' = [error EXCEPT ![t] = TRUE]

Await(t, w) == waiting' = [waiting EXCEPT ![t] = w]

\* Mutant of Sent: false although a callback is pending.
SentButFails(t, s, w) == SetStep(t, s) /\ Await(t, w) /\ Fail

\* A step's proceed returns true: it will be called back.
Sent(t, s, w) == SetStep(t, s) /\ Await(t, w) /\ Return

\* Mutant of Spawn: the lock is not tested.
SpawnUnlocked(t, s, w) == locked' = TRUE /\ Sent(t, s, w)

\* ApplicationInstallerUtility: one opkg child at a time.
Spawn(t, s, w) == ~locked /\ locked' = TRUE /\ Sent(t, s, w)

StepTable(t) == IF cmd[t].name = "InstallTask" THEN InstallSteps ELSE RemoveSteps

\* The error status of the steps both kinds of command run.
ErrorOf(t) == IF cmd[t].name = "RemoveTask" THEN "ErrorRemove" ELSE "ErrorInstall"

\* Where the package of t is unpacked: UnpackagedInstallStep ignores verify.
PlaceOf(t) == <<cmd[t].verify \/ cmd[t].pwa, pkg[t]>>

\* Mutants of Known: an ended command does not count; only a remove does.
KnownWhileRunning(a) == mapTask[a] # NoTask /\ ~finished[mapTask[a]]
KnownToRemove(a) == mapTask[a] # NoTask /\ cmd[mapTask[a]].name = "RemoveTask"

\* isAppKnown
Known(a) == mapTask[a] # NoTask

FreeTasks == {t \in Task : cmd[t] = NoCommand}

---------------------------------------------------------------------------
(* AppInstaller.                                                           *)

\* Task::initialize sets the package of an unpackaged install, remove that of a remove.
InitialPackage(c) == IF c.pwa \/ c.name = "RemoveTask" THEN c.id ELSE NoApp

\* createTask, Task::initialize and Task::run.
CreateTask(t, c, queue) ==
    /\ mapTask' = [mapTask EXCEPT ![c.id] = t]
    /\ cmd' = [cmd EXCEPT ![t] = c]
    /\ pkg' = [pkg EXCEPT ![t] = InitialPackage(c)]
    /\ step' = [step EXCEPT ![t] = IF c.pwa THEN "GetIpkInfoComplete" ELSE "Unknown"]
    /\ deferred' = Append(queue, TaskCall("proceed", t))
    /\ UNCHANGED <<error, finished, unpacked, held, waiting, loopVars, locked, envVars>>

(***************************************************************************)
(* A client's install or remove that is accepted; one that names an id in  *)
(* flight is refused and changes nothing here.  Verified commands may name *)
(* any id.                                                                 *)
(***************************************************************************)
Install(a, v, w) ==
    /\ MayDispatch /\ ~Known(a)
    /\ (~v => a \in DevIds) /\ (w => a \in PwaIds)
    /\ \E t \in FreeTasks :
           CreateTask(t, [name |-> "InstallTask", id |-> a, verify |-> v, pwa |-> w,
                          cleans |-> NoPlace], deferred)

Remove(a, v) ==
    /\ MayDispatch /\ ~Known(a)
    /\ ~v => a \in DevIds
    /\ \E t \in FreeTasks :
           CreateTask(t, [name |-> "RemoveTask", id |-> a, verify |-> v, pwa |-> FALSE,
                          cleans |-> NoPlace], deferred)

(***************************************************************************)
(* The object is destroyed with its last reference, the map's.  One that a *)
(* pending callback still points to keeps its identity until that callback *)
(* has run: what the callback finds in the freed memory is the object as   *)
(* it was, one of the outcomes of the undefined behaviour.                 *)
(***************************************************************************)
Destroy(t) ==
    /\ cmd' = [cmd EXCEPT ![t] = NoCommand]
    /\ pkg' = [pkg EXCEPT ![t] = NoApp]
    /\ step' = [step EXCEPT ![t] = "Unknown"]
    /\ error' = [error EXCEPT ![t] = FALSE]
    /\ finished' = [finished EXCEPT ![t] = FALSE]
    /\ unpacked' = [unpacked EXCEPT ![t] = FALSE]
    /\ held' = held \ {t}

\* releaseTask
ReleaseTask ==
    /\ AtRest /\ deferred # <<>> /\ Head(deferred).call = "release"
    /\ LET a == Head(deferred).id
           t == mapTask[a]
       IN  /\ mapTask' = [mapTask EXCEPT ![a] = NoTask]
           /\ IF t # NoTask /\ waiting[t] = "none" THEN Destroy(t)
              ELSE UNCHANGED <<cmd, taskVars>>
    /\ deferred' = Tail(deferred)
    /\ UNCHANGED <<waiting, loopVars, locked, envVars>>

(***************************************************************************)
(* The second lambda of onFinishTask: the daemon's own remove of what a    *)
(* failed install unpacked.  A refusal is ignored.                         *)
(***************************************************************************)
Rollback ==
    /\ AtRest /\ deferred # <<>> /\ Head(deferred).call = "rollback"
    /\ LET d == Head(deferred)
       IN  IF Known(d.id)
           THEN /\ deferred' = Tail(deferred)
                /\ UNCHANGED <<mapTask, cmd, taskVars, waiting, loopVars, locked, envVars>>
           ELSE \E t \in FreeTasks :
                    CreateTask(t, [name |-> "RemoveTask", id |-> d.id, verify |-> d.verify,
                                   pwa |-> FALSE, cleans |-> d.unpacked], Tail(deferred))

---------------------------------------------------------------------------
(* Task.                                                                   *)

\* A deferred task->proceed(): Task::run and RemoveStartStep.
DeferredProceed ==
    /\ AtRest /\ deferred # <<>> /\ Head(deferred).call = "proceed"
    /\ deferred' = Tail(deferred)
    /\ Proceed(Head(deferred).task)
    /\ UNCHANGED <<mapTask, cmd, taskVars, waiting, locked, envVars>>

(***************************************************************************)
(* Task::proceed and onProceed: look the status up, move to the next stage *)
(* and start it; a status without an entry or a stage without a creator    *)
(* (InstallComplete, RemoveComplete) ends the command.                     *)
(***************************************************************************)
ProceedToStage(t) ==
    /\ call = "proceed" /\ current = t /\ ~finished[t]
    /\ step[t] \in DOMAIN StepTable(t)
    /\ LET next == StepTable(t)[step[t]]
       IN  /\ SetStep(t, next)
           /\ call' = IF next \in StepFactory THEN "step" ELSE "finish"
    /\ UNCHANGED <<mapTask, cmd, pkg, error, finished, unpacked, held, waiting, deferred,
                   current, unwind, locked, envVars>>

ProceedToEnd(t) ==
    /\ call = "proceed" /\ current = t /\ ~finished[t]
    /\ step[t] \notin DOMAIN StepTable(t)
    /\ Fail
    /\ UNCHANGED <<mapTask, cmd, taskVars, waiting, deferred, locked, envVars>>

\* proceed on a finished task does nothing; the last callback of a destroyed one frees it.
ProceedFinished(t) ==
    /\ call = "proceed" /\ current = t /\ finished[t]
    /\ Return
    /\ IF t \notin {mapTask[a] : a \in AppId} /\ waiting[t] = "none" THEN Destroy(t)
       ELSE UNCHANGED <<cmd, taskVars>>
    /\ UNCHANGED <<mapTask, waiting, deferred, locked, envVars>>

\* onFinishTask asks for a rollback.
NeedsRollback(t) == cmd[t].name = "InstallTask" /\ error[t] /\ unpacked[t]

\* Mutant of FinishCalls: the rollback comes before the release.
FinishCallsSwapped(t) ==
    IF NeedsRollback(t)
    THEN <<RollbackCall(cmd[t].id, cmd[t].verify, PlaceOf(t)), ReleaseCall(cmd[t].id)>>
    ELSE <<ReleaseCall(cmd[t].id)>>

\* What onFinishTask defers, in this order.
FinishCalls(t) ==
    IF NeedsRollback(t)
    THEN <<ReleaseCall(cmd[t].id), RollbackCall(cmd[t].id, cmd[t].verify, PlaceOf(t))>>
    ELSE <<ReleaseCall(cmd[t].id)>>

\* Mutant of PackageOf: the id of the command is unlocked.
PackageOfId(t) == cmd[t].id

\* The package Task::finish unlocks, whoever locked it.
PackageOf(t) == pkg[t]

\* Mutant of Finishing: m_finished is not tested.
FinishingAgain(t) == call = "finish" /\ current = t

\* finish has not been called before.
Finishing(t) == call = "finish" /\ current = t /\ ~finished[t]

(***************************************************************************)
(* Task::finish and AppInstaller::onFinishTask: unlock the package and     *)
(* defer the release and then the rollback.                                *)
(***************************************************************************)
FinishTask(t) ==
    /\ Finishing(t)
    /\ finished' = [finished EXCEPT ![t] = TRUE]
    /\ \/ appLock' = appLock \ {PackageOf(t)}
       \/ SendMayFail /\ UNCHANGED appLock
    /\ deferred' = deferred \o FinishCalls(t)
    /\ Return
    /\ UNCHANGED <<mapTask, cmd, pkg, step, error, unpacked, held, waiting, locked,
                   orphans, disk, crashes>>

FinishAgain(t) ==
    /\ call = "finish" /\ current = t /\ finished[t]
    /\ Return
    /\ UNCHANGED <<mapTask, cmd, taskVars, waiting, deferred, locked, envVars>>

---------------------------------------------------------------------------
(* The steps of an install.  The first action of a step is its proceed,    *)
(* the others are the callbacks it waits for.                              *)

Starting(t, stage) == call = "step" /\ current = t /\ step[t] = stage

\* A pending reply or child exit of t is dispatched.
Receives(t, w) == MayDispatch /\ waiting[t] = w

\* IpkParseStep: make the directory and start extracting, in a child.
StartIpkParse(t) ==
    /\ Starting(t, "IpkParseNeeded")
    /\ \/ Sent(t, step[t], "extract") /\ UNCHANGED error
       \/ SetError(t, "ErrorInstall") /\ ProceedThenFail(t) /\ UNCHANGED waiting
    /\ UNCHANGED <<mapTask, cmd, pkg, finished, unpacked, held, deferred, locked, envVars>>

(***************************************************************************)
(* IpkParseStep::onPackageExtracted: the control file names the package; a *)
(* verified install accepts only its own id.                               *)
(***************************************************************************)
OnPackageExtracted(t) ==
    /\ Receives(t, "extract")
    /\ \/ SetError(t, "ErrorInstall") /\ UNCHANGED pkg
       \/ \E package \in AppId :
              /\ cmd[t].verify => package = cmd[t].id
              /\ pkg' = [pkg EXCEPT ![t] = package]
              /\ SetStep(t, "IpkParseComplete") /\ UNCHANGED error
    /\ Await(t, "none") /\ Proceed(t)
    /\ UNCHANGED <<mapTask, cmd, finished, unpacked, held, deferred, locked, envVars>>

(***************************************************************************)
(* GetIpkInfoStep: a chain of one call.  When it cannot be sent the chain  *)
(* completes inside run, the next stage starts inside that, and run        *)
(* returns false to a proceed that then finishes the task.                 *)
(***************************************************************************)
StartGetIpkInfo(t) ==
    /\ Starting(t, "GetIpkInfoNeeded")
    /\ \/ Sent(t, "GetIpkInfoRequested", "appInfo")
       \/ /\ SendMayFail
          /\ SetStep(t, "GetIpkInfoComplete") /\ ProceedThenFail(t) /\ UNCHANGED waiting
    /\ UNCHANGED <<mapTask, cmd, pkg, error, finished, unpacked, held, deferred, locked, envVars>>

\* onAppInfo: whether the app was found does not matter.
OnAppInfo(t) ==
    /\ Receives(t, "appInfo")
    /\ SetStep(t, "GetIpkInfoComplete") /\ Await(t, "none") /\ Proceed(t)
    /\ UNCHANGED <<mapTask, cmd, pkg, error, finished, unpacked, held, deferred, locked, envVars>>

\* Mutant of Refused: the id is tested, not the package.
RefusedById(t) == ~cmd[t].verify /\ cmd[t].id \in Privileged

\* checkPriviligedApp fails.
Refused(t) == ~cmd[t].verify /\ pkg[t] \in Privileged

(***************************************************************************)
(* AppCloseStep: refuse privileged packages, then run the chain AppInfo,   *)
(* (AppRemovable, AppLock if the app is known), AppRunning, (AppClose if   *)
(* it runs), SvcClose.                                                     *)
(***************************************************************************)
StartAppClose(t) ==
    /\ Starting(t, "AppCloseNeeded")
    /\ \/ /\ ~Refused(t)
          /\ Sent(t, "AppCloseRequested", "closeInfo")
          /\ UNCHANGED error
       \/ /\ Refused(t) \/ SendMayFail
          /\ SetError(t, ErrorOf(t)) /\ ProceedThenFail(t) /\ UNCHANGED waiting
    /\ UNCHANGED <<mapTask, cmd, pkg, finished, unpacked, held, deferred, locked, envVars>>

\* Mutants of CloseFails: no error code; the status of a success follows.
CloseFailsWithoutCode(t) ==
    /\ SetStep(t, ErrorOf(t)) /\ Await(t, "none") /\ Proceed(t)
    /\ UNCHANGED <<error, appLock, held>>
CloseFailsAndGoesOn(t) ==
    /\ SetStep(t, "AppCloseComplete") /\ error' = [error EXCEPT ![t] = TRUE]
    /\ Await(t, "none") /\ Proceed(t)
    /\ UNCHANGED <<appLock, held>>

\* onAppClosed with an error.
CloseFails(t) ==
    /\ SetError(t, ErrorOf(t)) /\ Await(t, "none") /\ Proceed(t)
    /\ UNCHANGED <<appLock, held>>

\* The chain's next item was sent.
CloseGoesOn(t, w) == Await(t, w) /\ UNCHANGED <<step, error, loopVars>>

\* AppInfo: an unknown app is not locked; one that is not removable is not removed.
OnCloseInfo(t) ==
    /\ Receives(t, "closeInfo")
    /\ \/ CloseGoesOn(t, "closeLock") /\ UNCHANGED <<appLock, held>>
       \/ CloseGoesOn(t, "closeApp") /\ UNCHANGED <<appLock, held>>
       \/ (cmd[t].name = "RemoveTask" \/ SendMayFail) /\ CloseFails(t)
    /\ UNCHANGED <<mapTask, cmd, pkg, finished, unpacked, deferred, locked, orphans, disk, crashes>>

\* AppLock
OnCloseLock(t) ==
    /\ Receives(t, "closeLock")
    /\ \/ CloseGoesOn(t, "closeApp") /\ appLock' = appLock \cup {pkg[t]} /\ held' = held \cup {t}
       \/ CloseFails(t)
    /\ UNCHANGED <<mapTask, cmd, pkg, finished, unpacked, deferred, locked, orphans, disk, crashes>>

\* AppRunning, AppClose and SvcClose, then onAppClosed.
OnAppClosed(t) ==
    /\ Receives(t, "closeApp")
    /\ \/ /\ SetStep(t, "AppCloseComplete") /\ Await(t, "none") /\ Proceed(t)
          /\ UNCHANGED <<error, appLock, held>>
       \/ CloseFails(t)
    /\ UNCHANGED <<mapTask, cmd, pkg, finished, unpacked, deferred, locked, orphans, disk, crashes>>

\* Mutant of NotSpawned: the step returns true.
NotSpawnedReportsSuccess(t) == SetError(t, "ErrorInstall") /\ Return

\* No child and no callback: the step must return false.
NotSpawned(t) == SetError(t, "ErrorInstall") /\ Fail

(***************************************************************************)
(* IpkInstallStep and AppInstallerUtility::install.  LOCKED (another opkg  *)
(* child runs) and FAIL (it cannot be spawned) leave the same state.       *)
(***************************************************************************)
StartIpkInstall(t) ==
    /\ Starting(t, "IpkInstallNeeded") /\ ~cmd[t].pwa
    /\ \/ SetError(t, "ErrorInstall") /\ ProceedThenFail(t)     \* the disk is full
          /\ UNCHANGED <<waiting, unpacked, locked>>
       \/ NotSpawned(t) /\ UNCHANGED <<waiting, unpacked, locked>>
       \/ /\ Spawn(t, "IpkInstallRequested", "ipkInstall")
          /\ unpacked' = [unpacked EXCEPT ![t] = TRUE]
          /\ UNCHANGED error
    /\ UNCHANGED <<mapTask, cmd, pkg, finished, held, deferred, envVars>>

\* Mutant of ReportedSteps: a word that is no status is stored as well.
ReportedStepsParsed == {"IpkInstallCurrent", "IpkInstallComplete", "Undefied"}

\* What "starting" .. "installing" and "done" in opkg's output set; other words set nothing.
ReportedSteps == {"IpkInstallCurrent", "IpkInstallComplete"}

(***************************************************************************)
(* cbInstallIpkProgress: a line of opkg's output, all of them read before  *)
(* the exit of the child is dispatched (its source has a lower priority).  *)
(* A line may name a stage, a function that failed to validate the package *)
(* (nothing is unpacked then), both or neither, whatever came before it.   *)
(***************************************************************************)
InstallProgress(t) ==
    /\ Receives(t, "ipkInstall")
    /\ \E s \in ReportedSteps \cup {step[t]}, invalid \in BOOLEAN :
           /\ SetStep(t, s)
           /\ unpacked' = [unpacked EXCEPT ![t] = @ /\ ~invalid]
    /\ UNCHANGED <<mapTask, cmd, pkg, error, finished, held, waiting, deferred, loopVars,
                   locked, envVars>>

(***************************************************************************)
(* What an opkg that ends has done to the package at p: nothing, half of   *)
(* its work, or all of it.  It knows of a package it has installed, and    *)
(* not of an app that was copied there, unless that replaced a package.    *)
(***************************************************************************)
PutOnDisk(p, s) == disk' = [disk EXCEPT ![p] = s]

NothingDone == UNCHANGED disk

HalfDone(p) == PutOnDisk(p, "partial")

\* Files that are not the package's stay.
PackageRemoved(p) == disk[p] # "absent" /\ \E s \in {"absent", "partial"} : PutOnDisk(p, s)

PackageUnknown(p) == disk[p] # "package" /\ NothingDone

\* Mutant of OpkgFailed: the exit status is not looked at.
OpkgFailureIgnored(t) == UNCHANGED <<step, error>>

\* The child was killed or exited with a status other than 0.
OpkgFailed(t) == SetError(t, "ErrorInstall")

(***************************************************************************)
(* cbChildComplete and cbInstallIpkComplete.  After an exit with success   *)
(* the command goes on from the last status reported, which need not be    *)
(* "done", and whatever validation failed; opkg itself is taken at its     *)
(* word that a package it reported nothing wrong about is installed.       *)
(***************************************************************************)
OnIpkInstalled(t) ==
    /\ Receives(t, "ipkInstall")
    /\ locked' = FALSE
    /\ \/ OpkgFailed(t) /\ (NothingDone \/ HalfDone(PlaceOf(t)))
       \/ /\ PutOnDisk(PlaceOf(t), "package") \/ (~unpacked[t] /\ NothingDone)
          /\ UNCHANGED <<step, error>>
    /\ Await(t, "none") /\ Proceed(t)
    /\ UNCHANGED <<mapTask, cmd, pkg, finished, unpacked, held, deferred, orphans, appLock, crashes>>

(***************************************************************************)
(* UnpackagedInstallStep: the app is copied synchronously.  A copy that    *)
(* fails has removed the old version and leaves its own files, if the      *)
(* directory could be made, with unpacked unset.                           *)
(***************************************************************************)
StartUnpackagedInstall(t) ==
    /\ Starting(t, "IpkInstallNeeded") /\ cmd[t].pwa
    /\ \/ SetError(t, "ErrorInstall") /\ ProceedThenFail(t) /\ UNCHANGED <<unpacked, disk>>
       \/ /\ SetError(t, "ErrorInstall") /\ Fail
          /\ \E left \in {"absent", "partial"} : PutOnDisk(PlaceOf(t), left)
          /\ UNCHANGED unpacked
       \/ /\ unpacked' = [unpacked EXCEPT ![t] = TRUE]
          /\ PutOnDisk(PlaceOf(t), "copy")
          /\ SetStep(t, "IpkInstallComplete") /\ Proceed(t) /\ UNCHANGED error
    /\ UNCHANGED <<mapTask, cmd, pkg, finished, held, waiting, deferred, locked,
                   orphans, appLock, crashes>>

(***************************************************************************)
(* ServiceInstallStep: a missing luna directory ends the command with no   *)
(* error; a failure to write the service files is reported now and once    *)
(* more by the deferred call that ends the command.                        *)
(***************************************************************************)
StartServiceInstall(t) ==
    /\ Starting(t, "ServiceInstallNeeded")
    /\ \/ cmd[t].verify \notin LunaDirs /\ Fail /\ UNCHANGED <<step, error, waiting, deferred>>
       \/ /\ cmd[t].verify \in LunaDirs
          /\ \/ /\ Sent(t, "ServiceInstallRequested", "serviceInstall")
                /\ UNCHANGED <<error, deferred>>
             \/ /\ SetError(t, "ErrorInstall") /\ Return
                /\ deferred' = Append(deferred, TaskCall("serviceFailed", t))
                /\ UNCHANGED waiting
             \/ /\ SendMayFail
                /\ SetError(t, "ErrorInstall") /\ Proceed(t)
                /\ UNCHANGED <<waiting, deferred>>
    /\ UNCHANGED <<mapTask, cmd, pkg, finished, unpacked, held, locked, envVars>>

\* onInstallServiceComplete, from the hub's reply.
OnServiceInstalled(t) ==
    /\ Receives(t, "serviceInstall")
    /\ \/ SetStep(t, "ServiceInstallComplete") /\ UNCHANGED error
       \/ SetError(t, "ErrorInstall")
    /\ Await(t, "none") /\ Proceed(t)
    /\ UNCHANGED <<mapTask, cmd, pkg, finished, unpacked, held, deferred, locked, envVars>>

\* onInstallServiceComplete(false), deferred.
DeferredServiceFailed ==
    /\ AtRest /\ deferred # <<>> /\ Head(deferred).call = "serviceFailed"
    /\ deferred' = Tail(deferred)
    /\ LET t == Head(deferred).task IN SetError(t, "ErrorInstall") /\ Proceed(t)
    /\ UNCHANGED <<mapTask, cmd, pkg, finished, unpacked, held, waiting, locked, envVars>>

\* InstallSmackStep: commands run synchronously.
StartInstallSmack(t) ==
    /\ Starting(t, "InstallSmackNeeded")
    /\ \/ SetStep(t, "InstallSmackComplete") /\ Proceed(t) /\ UNCHANGED error
       \/ SetError(t, "ErrorInstall") /\ ProceedThenFail(t)
    /\ UNCHANGED <<mapTask, cmd, pkg, finished, unpacked, held, waiting, deferred, locked, envVars>>

---------------------------------------------------------------------------
(* The steps of a remove.  AppCloseStep, above, is shared.                 *)

\* RemoveStartStep
StartRemove(t) ==
    /\ Starting(t, "RemoveNeeded")
    /\ SetStep(t, "RemoveStarted") /\ Return
    /\ deferred' = Append(deferred, TaskCall("proceed", t))
    /\ UNCHANGED <<mapTask, cmd, pkg, error, finished, unpacked, held, waiting, locked, envVars>>

\* RemoveJailStep: a child; a failure to spawn it is reported by a deferred call.
StartRemoveJail(t) ==
    /\ Starting(t, "RemoveJailNeeded")
    /\ SetStep(t, "RemoveJailRequested") /\ Return
    /\ \/ Await(t, "jail") /\ UNCHANGED deferred
       \/ deferred' = Append(deferred, TaskCall("jailFailed", t)) /\ UNCHANGED waiting
    /\ UNCHANGED <<mapTask, cmd, pkg, error, finished, unpacked, held, locked, envVars>>

\* onRemoveJail completes the stage whatever the jailer did.
OnRemoveJail(t) ==
    /\ Receives(t, "jail")
    /\ SetStep(t, "RemoveJailComplete") /\ Await(t, "none") /\ Proceed(t)
    /\ UNCHANGED <<mapTask, cmd, pkg, error, finished, unpacked, held, deferred, locked, envVars>>

DeferredJailFailed ==
    /\ AtRest /\ deferred # <<>> /\ Head(deferred).call = "jailFailed"
    /\ deferred' = Tail(deferred)
    /\ LET t == Head(deferred).task IN SetStep(t, "RemoveJailComplete") /\ Proceed(t)
    /\ UNCHANGED <<mapTask, cmd, pkg, error, finished, unpacked, held, waiting, locked, envVars>>

\* RemoveSmackStep reports its failure with the status of an install.
StartRemoveSmack(t) ==
    /\ Starting(t, "RemoveSmackNeeded")
    /\ \/ SetStep(t, "RemoveSmackComplete") /\ Proceed(t) /\ UNCHANGED error
       \/ SetError(t, "ErrorInstall") /\ ProceedThenFail(t)
    /\ UNCHANGED <<mapTask, cmd, pkg, finished, unpacked, held, waiting, deferred, locked, envVars>>

(***************************************************************************)
(* ServiceUninstallStep: the directories of both roots are needed by a     *)
(* verified remove.  When the manifest call cannot be sent the stage       *)
(* completes inside the call and the next one starts; the false that is    *)
(* returned then reports an error and finishes the task.                   *)
(***************************************************************************)
StartServiceUninstall(t) ==
    /\ Starting(t, "ServiceUninstallNeeded")
    /\ LET configured == {cmd[t].verify, FALSE} \subseteq LunaDirs
       IN  \/ ~configured /\ Fail /\ UNCHANGED <<step, waiting>>
           \/ configured /\ Sent(t, step[t], "serviceUninstall")
           \/ /\ configured /\ SendMayFail
              /\ SetStep(t, "ServiceUninstallComplete")
              /\ call' = "proceed" /\ current' = t /\ unwind' = "report"
              /\ UNCHANGED waiting
    /\ UNCHANGED <<mapTask, cmd, pkg, error, finished, unpacked, held, deferred, locked, envVars>>

\* Back in ServiceUninstallStep::proceed after the nested stages.
ReportServiceFailure(t) ==
    /\ call = "report" /\ current = t
    /\ SetError(t, "ErrorRemove") /\ Fail
    /\ UNCHANGED <<mapTask, cmd, pkg, finished, unpacked, held, waiting, deferred, locked, envVars>>

\* onUninstallServiceComplete completes the stage whatever the hub answered.
OnServiceUninstalled(t) ==
    /\ Receives(t, "serviceUninstall")
    /\ SetStep(t, "ServiceUninstallComplete") /\ Await(t, "none") /\ Proceed(t)
    /\ UNCHANGED <<mapTask, cmd, pkg, error, finished, unpacked, held, deferred, locked, envVars>>

(***************************************************************************)
(* IpkRemoveStep and AppInstallerUtility::remove.  LOCKED and FAIL end in  *)
(* onIpkRemoved inside run; proceed returns true all the same.             *)
(***************************************************************************)
StartIpkRemove(t) ==
    /\ Starting(t, "IpkRemoveNeeded")
    /\ \/ SetError(t, "ErrorRemove") /\ Proceed(t) /\ UNCHANGED <<waiting, locked>>
       \/ Spawn(t, "IpkRemoveRequested", "ipkRemove") /\ UNCHANGED error
    /\ UNCHANGED <<mapTask, cmd, pkg, finished, unpacked, held, deferred, envVars>>

\* The package opkg removes: the id of the command, not its package.
RemovedPlace(t) == <<cmd[t].verify, cmd[t].id>>

\* Mutant of RemovedStep: a rollback goes on like a client's remove.
RemovedStepAlways(t) == "IpkRemoveComplete"

\* The daemon's own remove keeps the app's data and ends here.
RemovedStep(t) == IF cmd[t].cleans # NoPlace THEN "RemoveComplete" ELSE "IpkRemoveComplete"

(***************************************************************************)
(* cbChildComplete, cbRemoveIpkComplete and onIpkRemoved.  Asked for one   *)
(* that it does not know of, an unpackaged app for instance, opkg has      *)
(* nothing to do and may call that a success or a failure.                 *)
(***************************************************************************)
OnIpkRemoved(t) ==
    /\ Receives(t, "ipkRemove")
    /\ locked' = FALSE
    /\ LET p == RemovedPlace(t)
       IN  \/ /\ PackageRemoved(p) \/ PackageUnknown(p)
              /\ SetStep(t, RemovedStep(t))
              /\ UNCHANGED error
           \/ /\ NothingDone \/ (disk[p] # "absent" /\ HalfDone(p))
              /\ SetError(t, "ErrorRemove")
    /\ Await(t, "none") /\ Proceed(t)
    /\ UNCHANGED <<mapTask, cmd, pkg, finished, unpacked, held, deferred, orphans, appLock, crashes>>

\* The directories of the app that onDataRemoved looks for: a verified remove takes both.
AppDirs(t) == {<<v, cmd[t].id>> : v \in {cmd[t].verify, FALSE}}

\* onDataRemoved: Utils::remove_dir on each of them.
RemoveAppDirs(t) ==
    /\ disk' = [p \in Place |-> IF p \in AppDirs(t) THEN "absent" ELSE disk[p]]
    /\ UNCHANGED <<orphans, appLock, crashes>>

(***************************************************************************)
(* DataRemoveStep: one call to the database, whose outcome does not        *)
(* matter, and then the directories of the app are removed, however it was *)
(* installed.  When the call cannot be sent, that is done inside run.      *)
(***************************************************************************)
StartDataRemove(t) ==
    /\ Starting(t, "DataRemoveNeeded")
    /\ \/ Sent(t, "DataRemoveRequested", "dataRemove") /\ UNCHANGED envVars
       \/ /\ SendMayFail
          /\ RemoveAppDirs(t)
          /\ SetStep(t, "DataRemoveComplete") /\ ProceedThenFail(t) /\ UNCHANGED waiting
    /\ UNCHANGED <<mapTask, cmd, pkg, error, finished, unpacked, held, deferred, locked>>

OnDataRemoved(t) ==
    /\ Receives(t, "dataRemove")
    /\ RemoveAppDirs(t)
    /\ SetStep(t, "DataRemoveComplete") /\ Await(t, "none") /\ Proceed(t)
    /\ UNCHANGED <<mapTask, cmd, pkg, error, finished, unpacked, held, deferred, locked>>

---------------------------------------------------------------------------
(* Crash and respawn.                                                      *)

(***************************************************************************)
(* The daemon dies and upstart starts a new one.  Nothing is stored: every *)
(* command is forgotten.  Locks, packages and opkg children survive.       *)
(***************************************************************************)
Crash ==
    /\ crashes < MaxCrashes
    /\ crashes' = crashes + 1
    /\ orphans' = orphans
           \cup {PlaceOf(t) : t \in {u \in Task : waiting[u] = "ipkInstall"}}
           \cup {RemovedPlace(t) : t \in {u \in Task : waiting[u] = "ipkRemove"}}
    /\ mapTask' = [a \in AppId |-> NoTask]
    /\ cmd' = [t \in Task |-> NoCommand]
    /\ pkg' = [t \in Task |-> NoApp]
    /\ step' = [t \in Task |-> "Unknown"]
    /\ error' = [t \in Task |-> FALSE]
    /\ finished' = [t \in Task |-> FALSE]
    /\ unpacked' = [t \in Task |-> FALSE]
    /\ held' = {}
    /\ waiting' = [t \in Task |-> "none"]
    /\ deferred' = <<>>
    /\ call' = "none" /\ current' = NoTask /\ unwind' = "none"
    /\ locked' = FALSE
    /\ UNCHANGED <<appLock, disk>>

\* An orphaned opkg child ends, whether it was to install or to remove the package.
OrphanExits(p) ==
    /\ p \in orphans
    /\ orphans' = orphans \ {p}
    /\ NothingDone \/ HalfDone(p) \/ PutOnDisk(p, "package") \/ PackageRemoved(p)
    /\ UNCHANGED <<mapTask, cmd, taskVars, waiting, deferred, loopVars, locked, appLock, crashes>>

---------------------------------------------------------------------------

Step(t) ==
    \/ StartIpkParse(t) \/ StartGetIpkInfo(t) \/ StartAppClose(t)
    \/ StartIpkInstall(t) \/ StartUnpackagedInstall(t)
    \/ StartServiceInstall(t) \/ StartInstallSmack(t)
    \/ StartRemove(t) \/ StartRemoveJail(t) \/ StartRemoveSmack(t)
    \/ StartServiceUninstall(t) \/ StartIpkRemove(t) \/ StartDataRemove(t)

Unwind(t) ==
    \/ ProceedToStage(t) \/ ProceedToEnd(t) \/ ProceedFinished(t)
    \/ FinishTask(t) \/ FinishAgain(t) \/ ReportServiceFailure(t)

Deferred ==
    \/ DeferredProceed \/ DeferredServiceFailed \/ DeferredJailFailed
    \/ ReleaseTask \/ Rollback

\* A child of t exits, or writes a line.
Exit(t) ==
    \/ OnPackageExtracted(t) \/ OnIpkInstalled(t) \/ OnRemoveJail(t) \/ OnIpkRemoved(t)

Child(t) == Exit(t) \/ InstallProgress(t)

\* A service answers a call made for t.
Reply(t) ==
    \/ OnAppInfo(t) \/ OnCloseInfo(t) \/ OnCloseLock(t) \/ OnAppClosed(t)
    \/ OnServiceInstalled(t) \/ OnServiceUninstalled(t) \/ OnDataRemoved(t)

Client ==
    \/ \E a \in AppId, v, w \in BOOLEAN : Install(a, v, w)
    \/ \E a \in AppId, v \in BOOLEAN : Remove(a, v)

Next ==
    \/ Client
    \/ Deferred
    \/ \E t \in Task : Unwind(t) \/ Step(t) \/ Child(t) \/ Reply(t)
    \/ Crash
    \/ \E p \in Place : OrphanExits(p)

Spec == Init /\ [][Next]_vars

---------------------------------------------------------------------------
(* Fairness: what the main loop and the world outside guarantee.           *)

(***************************************************************************)
(* A callback runs on (WF).  Other callbacks and client requests come      *)
(* between two iterations of the loop, so the rest is strong: the loop     *)
(* dispatches every source that stays ready, a child that runs exits,      *)
(* however much it writes, and a service that was called answers.  The     *)
(* last two are assumptions about the environment: no call of a chain has  *)
(* a timeout.                                                              *)
(***************************************************************************)
Fairness ==
    /\ WF_vars(\E t \in Task : Unwind(t) \/ Step(t))
    /\ SF_vars(Deferred)
    /\ \A t \in Task : SF_vars(Exit(t) \/ Reply(t))

FairSpec == Spec /\ Fairness

---------------------------------------------------------------------------
(* Properties.                                                             *)

TypeOK ==
    /\ mapTask \in [AppId -> Task \cup {NoTask}]
    /\ cmd \in [Task -> Command \cup {NoCommand}]
    /\ pkg \in [Task -> Package]
    /\ step \in [Task -> TaskStep]
    /\ error \in [Task -> BOOLEAN]
    /\ finished \in [Task -> BOOLEAN]
    /\ unpacked \in [Task -> BOOLEAN]
    /\ held \subseteq Task
    /\ waiting \in [Task -> Waits]
    /\ deferred \in Seq(DeferredCall)
    /\ call \in {"none", "proceed", "step", "finish", "report"}
    /\ current \in Task \cup {NoTask}
    /\ unwind \in {"none", "finish", "report"}
    /\ locked \in BOOLEAN
    /\ orphans \subseteq AnyPlace
    /\ appLock \subseteq Package
    /\ disk \in [Place -> {"absent", "package", "copy", "partial"}]
    /\ crashes \in 0 .. MaxCrashes

Live(t) == cmd[t] # NoCommand /\ ~finished[t]

\* A deferred call goes on with t; a release of a is on its way.
IsDeferred(t) == \E k \in DOMAIN deferred : deferred[k].task = t
IsReleased(a) == \E k \in DOMAIN deferred : deferred[k] = ReleaseCall(a)

\* There is at most one such call.
DeferredOnce(t) ==
    \A k, l \in DOMAIN deferred : deferred[k].task = t /\ deferred[l].task = t => k = l
ReleasedOnce(a) ==
    \A k, l \in DOMAIN deferred :
        deferred[k] = ReleaseCall(a) /\ deferred[l] = ReleaseCall(a) => k = l

(***************************************************************************)
(* A command that has not ended is continued by exactly one of a callback  *)
(* that is running, a reply or child it waits for, and a deferred call: it *)
(* can neither get stuck with its id blocked nor be advanced twice.  The   *)
(* steps keep it through four conventions for their return value and the   *)
(* place of their call to Task::proceed.                                   *)
(***************************************************************************)
OneContinuation ==
    \A t \in Task : Live(t) =>
        /\ current = t \/ waiting[t] # "none" \/ IsDeferred(t)
        /\ current = t => waiting[t] = "none"
        /\ IsDeferred(t) => current # t /\ waiting[t] = "none"
        /\ DeferredOnce(t)

(***************************************************************************)
(* Callbacks and deferred calls hold bare pointers to the task and to its  *)
(* step.  What is still to be called belongs to a task that has not ended  *)
(* and that the map of AppInstaller keeps alive.                           *)
(***************************************************************************)
NoDanglingCallback ==
    \A t \in Task :
        waiting[t] # "none" \/ IsDeferred(t) => Live(t) /\ mapTask[cmd[t].id] = t

(***************************************************************************)
(* A release names an id, not a task.  Exactly the ids whose command has   *)
(* ended have one on its way, and only one, so that it can never drop the  *)
(* entry of a command still running.                                       *)
(***************************************************************************)
ReleaseOwed ==
    \A a \in AppId :
        /\ IsReleased(a) <=> Known(a) /\ finished[mapTask[a]]
        /\ ReleasedOnce(a)

(***************************************************************************)
(* m_locked is the only thing that keeps two opkg processes apart: it is   *)
(* set exactly while one task waits for a child of ApplicationInstaller-   *)
(* Utility, on every way in and out of the two steps that spawn one.       *)
(***************************************************************************)
UsesOpkg(t) == waiting[t] \in {"ipkInstall", "ipkRemove"}

OpkgExclusive ==
    /\ locked <=> \E t \in Task : UsesOpkg(t)
    /\ \A t, u \in Task : UsesOpkg(t) /\ UsesOpkg(u) => t = u

(***************************************************************************)
(* No package stays locked in applicationManager without a running command *)
(* for it, even where dev installs of several ids carry one package.       *)
(***************************************************************************)
NoAppLeftLocked ==
    \A p \in appLock : \E t \in Task : Live(t) /\ pkg[t] = p

(***************************************************************************)
(* A command that was granted the lock of its package keeps it until it    *)
(* ends: no other command's finish, and no rollback, opens it earlier.     *)
(***************************************************************************)
LockKept ==
    \A t \in held : Live(t) => pkg[t] \in appLock

(***************************************************************************)
(* The status a client saw last is a verdict: complete without an error,   *)
(* or an error status with an error code.  The one way to end without it   *)
(* is an opkg that exits with success after a last word other than done.   *)
(***************************************************************************)
EndsWithVerdict ==
    \A t \in Task : finished[t] =>
        \/ error[t] /\ step[t] \in ErrorSteps
        \/ ~error[t] /\ step[t] = IF cmd[t].name = "InstallTask" THEN "InstallComplete"
                                                                ELSE "RemoveComplete"
        \/ ~error[t] /\ step[t] \in {"IpkInstallRequested", "IpkInstallCurrent"}

(***************************************************************************)
(* Once an error is set the command only ends: no later stage starts, no   *)
(* status replaces the error's and nothing more is waited for.             *)
(***************************************************************************)
NothingAfterError ==
    [][\A t \in Task : error[t] /\ cmd'[t] = cmd[t] =>
           step'[t] = step[t] /\ waiting'[t] = waiting[t]]_vars

(***************************************************************************)
(* The daemon's own remove after a failed install never reaches the user's *)
(* data of the app, which may be an update of one that was there before.   *)
(***************************************************************************)
RollbackKeepsData ==
    \A t \in Task : cmd[t].cleans # NoPlace =>
        step[t] \notin {"DataRemoveNeeded", "DataRemoveRequested", "DataRemoveComplete"}

IsInstalled(p) == disk[p] \in {"package", "copy"}

(***************************************************************************)
(* A verified command that reports complete has done it, whatever the      *)
(* other commands do to packages of the same name in the other root: the   *)
(* app it installs is there, unless opkg reported that it did not validate *)
(* and still exited with success; the app it removes is in neither root,   *)
(* however it got there.  A rollback promises less: what opkg installed is *)
(* not there any more; it may be half removed, and a copy stays.           *)
(***************************************************************************)
CompletedMeansDone ==
    \A t \in Task : Live(t) /\ cmd[t].verify =>
        /\ step[t] = "InstallComplete" /\ unpacked[t] => IsInstalled(PlaceOf(t))
        /\ step[t] = "RemoveComplete" /\ cmd[t].cleans = NoPlace =>
               \A p \in AppDirs(t) : disk[p] = "absent"
        /\ step[t] = "RemoveComplete" /\ cmd[t].cleans # NoPlace =>
               disk[RemovedPlace(t)] # "package"

(***************************************************************************)
(* A dev command neither locks nor changes a package with a privileged     *)
(* name, under whatever id it was asked for.                               *)
(***************************************************************************)
PrivilegedUntouched ==
    \A p \in Privileged :
        /\ disk[<<FALSE, p>>] = "absent"
        /\ \A t \in held : pkg[t] = p => cmd[t].verify

\* Every command ends and gives its id free.
CommandEnds == \A a \in AppId : Known(a) ~> ~Known(a)

(***************************************************************************)
(* AppInstaller, Task and the main loop implement CommandRegistry.         *)
(***************************************************************************)
Registry ==
    INSTANCE CommandRegistry WITH
        phase <- [a \in AppId |-> IF ~Known(a) THEN "idle"
                                  ELSE IF finished[mapTask[a]] THEN "ended" ELSE "active"],
        owed  <- {a \in AppId : \E k \in DOMAIN deferred :
                                    deferred[k].call = "rollback" /\ deferred[k].id = a}

ImplementsRegistry == Registry!Spec

---------------------------------------------------------------------------
(* Claims made in the source that the code does not keep.                  *)

(***************************************************************************)
(* AppInstaller.cpp: a failed install is cleaned up "against the same      *)
(* install root the failed task used".                                     *)
(***************************************************************************)
RollbackUsesSameRoot ==
    \A t \in Task : cmd[t].cleans # NoPlace => cmd[t].verify = cmd[t].cleans[1]

=============================================================================
