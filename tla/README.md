# Verification of appinstalld

appinstalld is the daemon behind `com.webos.appInstallService`: it installs and removes
application packages on behalf of luna bus clients. This directory holds TLA+ models of it, the
TLC configurations that check them and proofs of the main results.

Line references are to `src/` as of the commit the models were translated from. Every definition
that stands for code is listed with its lines in `PROJECT.json` under `map`; the definitions that
are not (properties, mutants, constants of the MC modules) say so in their comment.

## 1. The system

One process, one thread, one GLib main loop. What the loop dispatches (a luna request, a luna
reply, the exit or the output of a child process, a timeout source) runs to completion; there is
no other concurrency inside the daemon. All difficulty comes from what may happen between two
callbacks of one command, and from callbacks that call each other on one stack.

### 1.1 Components, their state and their operations

| component | source | state | operations |
|---|---|---|---|
| AppInstallService | `service/AppInstallService.cpp` | the request messages kept while `getAppInfo` is asked | `install`, `remove`, `status`, `dev/install`, `dev/remove` and the `getAppInfo` callbacks |
| AppInstaller | `installer/AppInstaller.cpp` | `m_mapTask`: id -> Task | `install`, `remove`, `createTask`, `onUpdateTask`, `onFinishTask`, `releaseTask` |
| Task | `installer/Task.cpp` | `m_step`, `m_errorCode`, `m_finished`, `m_unpacked`, `m_packageId`, the current step object | `initialize`, `run`, `proceed`, `setStep`, `setError`, `finish` |
| steps | `step/*.cpp` | what one stage waits for | `proceed` and the callbacks of the stage |
| AppInstallerUtility | `installer/AppInstallerUtility.cpp` | `m_locked` (static), the opkg child | `install`, `remove`, `cbChildProgress`, `cbChildComplete`, `clear` |
| StepSettings | `settings/StepSettings.cpp` | the two step tables | `loadStepConfigure` |
| CallChain and items | `base/CallChain.cpp`, `installer/CallChainEventHandler.cpp` | the queue of calls, its conditions | `add`, `add_if`, `run`, `onCallFinished`, `onCallError`, `finish` |
| Utils::async | `base/Utils.h`, `base/Utils.cpp` | timeout sources of interval 0 | `async`, `cbAsync` |
| AppPackage, Jailer | `installer/AppPackage.cpp`, `installer/Jailer.cpp` | one child process each, its watch, the archives still to unpack | `extract`, `extractOneItem`, `remove`, their completion and destructors |
| ServiceInstallerUtility, Manifest, RoleGenerator | `installer/*.cpp` | files of services, roles and permissions, and the manifest that lists them, in a verified and a dev tree | `install`, `remove` and the hub's replies |
| PermissionFilter | `installer/PermissionFilter.cpp` | none | `requestedGroups`, `loadAllowlist`, `filter`, `grantedGroups` |
| ApplicationManager (client) | `client/ApplicationManager.cpp` | none; the lock is in applicationManager | `lockApp` |
| Settings, readers of JSON files, bus and JSON helpers, logging | `settings/Settings.cpp`, `base/*`, `util/*` | constant after start | |

### 1.2 How they interact

A client's request reaches `AppInstallService`, which may ask applicationManager about the app
first and then calls `AppInstaller::install` or `remove`. If the id has no entry in `m_mapTask` a
`Task` is created and `task->run()` defers its first `proceed`. `Task::proceed` looks `m_step` up
in the step table, sets the next stage and calls the step's `proceed`. A step works
synchronously, or starts a child process or a call chain, and when that is done sets a status
and calls `task->proceed()` again. A failing step calls `setError`; error statuses have no entry
in the tables, so the next `proceed` calls `finish`. `finish` unlocks the app and signals
`onFinishTask`, which defers the release of the id and, if the install had unpacked something, a
remove of the same id by the daemon itself (the rollback).

### 1.3 What is hard

* **Conventions of return values.** A step ends in one of four ways: it returns true and waits;
  it calls `proceed` and returns true; it calls `setError` and `proceed` and returns false; it
  returns false. `Task::proceed` calls `finish` on every false, on a stack on which deeper
  frames of the same function may already have finished the task.
* **Call chains that fail at once.** A chain whose first call cannot be sent runs its completion
  handler inside `run`, before the step has returned.
* **Deferred calls and raw pointers.** `Utils::async` lambdas and bus callbacks hold `this` of
  tasks and steps; the map's entry is what keeps a task alive.
* **Release by id.** The release names an id and the rollback needs the id to be free.
* **Two install roots.** `verify` selects the root, except that unpackaged apps always go to the
  verified one; the package of a dev install need not have the name of the id.
* **One opkg at a time**, across all tasks, through one static flag.
* **Children outlive the objects that started them.** A step dies with its wrapper at any moment;
  the child, the watch GLib has for it, and opkg's lock file do not. Exit and output of a child are
  two sources of the loop, and ids of sources and processes come round again.
* **Files written one by one.** The luna files of an app are found again only through a manifest
  that is rewritten first; whatever interrupts a rewrite decides what can still be cleaned up.
* **Nothing is persistent.** A crash forgets every command; locks in applicationManager, files
  and running opkg children survive.
* **Image variants.** Steps that need a jail or SMACK are dropped from the tables when the image
  has none, by rewriting the status of the following entry.

### 1.4 What makes each component correct

* AppInstaller: at most one command per id; a command's entry is released once, after its end;
  nothing comes between release and rollback; the rollback undoes what was done.
* Task and steps: a command that has not ended is always carried on by exactly one thing; its
  last status is a verdict that agrees with the error code; after an error nothing more is
  started; nothing is called back after its end.
* AppInstallerUtility: never two opkg children; the flag is set exactly while there is one; the
  step hears all its output before its exit; its lock file is removed before a start and only then.
* AppPackage, Jailer, AppInstallerUtility: a watch never calls a destroyed object, every child is
  reaped, the owner is called back once; what is unpacked is of the package at hand.
* AppCloseStep and `finish`: an app is locked while it is worked on and not afterwards.
* StepSettings: the loaded table runs exactly the supported stages in the configured order; where the
  entries stand so that it cannot, it starts no stage too early.
* CallChain: the handler is called once; nothing touches a chain after its deletion.
* AppInstallService: every request is answered exactly once, also when the answer of
  applicationManager is late or the id was taken meanwhile.
* ServiceInstallerUtility: an app that counts as installed has all its files, and the hub knows
  them; a failure or a crash elsewhere makes no file unknown to the manifest; the hub drops a manifest
  before its files go; the groups that the files of a service name are the same, and its own app is in
  them.
* PermissionFilter: nothing is granted that may not be, whatever the files look like; what may be
  granted and was asked for is.

The list `hazards` of `PROJECT.json` gives the lines at which each of these can go wrong.

## 2. Modules

| module | what it is |
|---|---|
| `TaskSteps` | the statuses and stages of a command, and the order in which a table is expected to have them |
| `StepTables` | the shipped arrays and what one iteration of `loadStepConfigure` makes of an entry, as operators |
| `StepSettings` | `loadStepConfigure` as a state machine, one action per iteration, with its reference definition |
| `MCStepSettings` | configuration files for TLC: the shipped arrays with entries and stages in every order |
| `StepSettingsProofs` | the loaded tables are right for any arrays that `Bypassable` allows; those of the shipped file are in order |
| `AppInstaller` | the command engine: AppInstaller, Task, all steps, the opkg lock, deferred calls, crash |
| `CommandRegistry` | the abstract specification of AppInstaller: ids, their commands and owed rollbacks |
| `MCAppInstaller` | instances of `AppInstaller`; assumes that its step tables are the ones `StepTables` loads |
| `AppInstallerProofs` | theorems about `AppInstaller`: who carries a command on, the opkg lock, the registry |
| `AppInstallerStageProofs` | over it: the stages of a command, its errors and verdict; locks and packages of the device |
| `CallChain` | a chain of calls with its conditions, every item, and its deletion |
| `AppClosing` | the abstract specification of the chain of AppCloseStep: three replies |
| `MCCallChain`, `CallChainProofs` | instances and theorems of `CallChain` |
| `AppInstallService` | the bus methods, composed over `CommandRegistry` |
| `AppInstallServiceProofs` | the theorems about `AppInstallService` |
| `ServiceFiles` | the files ServiceInstallerUtility writes and removes for one app, and the hub |
| `MCServiceFiles`, `ServiceFilesProofs` | instances and theorems of `ServiceFiles` |
| `ChildProcesses` | the wrappers of child processes, their watches, and what a crash leaves of them |
| `ChildProcessesProofs` | the theorems about `ChildProcesses` |
| `PermissionFilter` | the filter of requested groups and the caller that writes them |
| `ServicePermissions` | the API permission and group files of services, and then `PermissionFilter` for the app |
| `MCServicePermissions` | inputs of both (with the cases of the unit tests as an assumption) |
| `PermissionFilterProofs` | the theorems about `PermissionFilter` and `ServicePermissions` |

How they fit together: `AppInstallService` uses AppInstaller only through `CommandRegistry`, which
`AppInstaller` implements; `AppInstaller` has the calls of AppCloseStep only as the three replies
of `AppClosing`, which `CallChain` implements; of its step tables it assumes the order that `TaskSteps`
defines, which `StepSettingsProofs` proves of what `StepSettings` loads from the shipped file (and an
assumption of `MCAppInstaller` checks that its runs use such tables). `ServiceFiles` opens up what is one
stage there
(`ServiceInstallNeeded`, `ServiceUninstallNeeded`), and `ServiceFiles` names the files whose
contents are in `ServicePermissions`, which composes what is written for the services of a package
with `PermissionFilter` for its app. `ChildProcesses` opens up what is "waits for its child" in
`AppInstaller`.

### 2.1 AppInstaller

Variables and fields: `mapTask` is `m_mapTask`. `cmd`, `pkg`, `step`, `error`, `finished`,
`unpacked` are, for each Task object, what was asked of it and its `m_packageId`, `m_step`,
`m_errorCode # 0`, `m_finished`, `m_unpacked`. `waiting` is the bus reply or the child exit its
step waits for. `deferred` is the queue of `Utils::async`. `locked` is `m_locked`. `appLock` and
`disk` are the parts of the world the commands change: the packages locked in
applicationManager, and for each install root and package what its directory holds: nothing
(`absent`), a `package` that opkg installed, the `copy` of an unpackaged app, or a `partial` one of
either. `held` and `orphans` are history: which commands were granted the lock, and which opkg children
outlived a crash.

**opkg and the disk.** What opkg does is external and over-approximated. A child that fails has done
nothing or half of its work. It knows of a `package`; of a `copy` or a `partial` one it may or may not
know (the copy may lie over a package), and asked to remove what it does not know it does nothing and
calls that a success or a failure. What the daemon makes of its output and its exit is as in the code:
`InstallProgress` takes a line whatever came before it, and after an exit with success
`OnIpkInstalled` goes on from the last status reported, whatever `m_unpacked` is. opkg is taken at its
word in one point: after an exit with success, with no failed validation reported, the package is there.
Directories go in two places only, by opkg and in `RemoveAppDirs`, which is `Utils::remove_dir` in
`onDataRemoved`: that of the app, in both roots for a verified remove, taken to succeed. (The
directories of the services beside it are data of the app that no property tells apart.)

**Callbacks as chains of actions.** A callback of the loop may run through several stages of a
task before it returns. It is modelled by a chain of small actions during which nothing else is
enabled: `call` is the function to be entered next (`proceed`, the `step`'s proceed, `finish`,
or the rest of ServiceUninstallStep, `report`), `current` its task, and `unwind` what the outer
frame of `Task::proceed` will do when the inner calls have returned. One pending outer frame is
enough: a second one could only call `finish` on a finished task, which changes nothing.
`AtRest` holds between callbacks.

**Deferred calls.** `Utils::async` is `g_timeout_add(0)`. Sources of equal priority and due time
fire in order of creation, and two created by one callback are due together with no other source
in between; `MayDispatch` uses this for exactly one pair, the release and the rollback, and lets
anything else come between other deferred calls.

**Steps.** `Start...` is the `proceed` of a step, `On...` its callbacks. The outcomes of a step
are the disjuncts. Whether a luna call can be sent is `SendMayFail`: `LSCallOneReply` fails only
when the bus handle is gone or a message cannot be built, and the code behaves so differently
then that it has configurations of its own. `LunaDirs` says for which `verify` the directories
of luna services are configured.

**Destroyed objects.** When a task is released while a callback of it is pending, the callback
will use freed memory. The model lets it find the object as it was, one of the possible
outcomes, so that what follows can be examined; that it can happen at all is what
`NoDanglingCallback` and the run `strays` are about.

**Step tables.** `StepSettings` reads the two arrays entry by entry, with the one `keepStatus` that
`loadStepConfigure` has. What it should come to is `Connects`: the table is defined for the
configured statuses but those that only a dropped stage sets, and each is followed by `NextStage`, the
configured stage passed over once or twice (`PassOver`) where it is dropped. `Bypassable` says of
which arrays that can be expected of one pass and one variable: a dropped stage is configured before
the entry that follows it, with no other dropped one in between, and not SMACK right before the jail,
since the loop tests the jail first. The shipped arrays are of this kind, and so are they with the entries
in some other orders. In the rest `loadStepConfigure` may leave a status undefined or put `Undefied`
into the table, and nothing in the code notices. For the orders of a chain whose dropped stages follow each
other
(`DropsOneStretch`) `NeverJumpsAhead` says what is left then: a table that stops, and none that starts a
later stage in place of a supported one.

### 2.2 CommandRegistry and the refinement

`phase` of an id is `idle`, `active` or `ended`, and `owed` are the ids for which a rollback is
on its way. `AppInstaller` implements it under the mapping `Registry`: an id is idle without an
entry, ended if its task is finished, active otherwise. The content is in `Undoing`: between the
release of a failed install and the command that undoes it nothing else may happen.

### 2.3 CallChain

`m_calls`, `m_conditions` and `m_finished` are the fields of CallChain; `Added` and `AddedIf` are
what a step puts into them, by `kind` of chain; a condition is an item and the result it is for,
and what it maps to is the calls to put in front then. `handled` counts calls of the handler, `deleted`
is `delete this`, `ran` what `run` returned to the step, `sendMayFail` whether a luna call may fail to be
sent. `call` is the function entered next, as
in `AppInstaller`. An item that calls a service waits in `pending`; SvcClose calls all services
at once, and `quits` are its open calls. The fields `m_numServices`, `m_numResponse` and
`m_signaled` are SvcClose's. `appLocked` is what `lockApp` has granted. AppRemovable, SvcClose
and a condition's target are never the first item of a chain, so that what `run` returns is
decided by an item that calls a service or opkg.

`ImplementsAppClosing` is the refinement: until it is decided that the chain fails, `stage`
(`CloseStage`) is which of AppInfo (with AppRemovable), AppLock or the rest is still in the queue.
A lock counts (`LockTaken`) from the moment the chain has gone on from AppLock. That AppRemovable belongs to
the first
reply, that AppLock happens only for a known app, that an unknown app does not fail the chain,
and that AppClose and SvcClose are one stage after the lock, are consequences of the order in
which `onCallFinished` puts targets in front of the queue and of the options of the items.
`refused` is history: whether a service refused to quit.

### 2.4 AppInstallService

Each request has a `state`, the number of `answers` given, the references (`refs`) held to its
message and whether its getAppInfo call is `timed`. `phase` and `owed` are CommandRegistry's;
what AppInstaller does by itself are CommandRegistry's actions, to which the service adds what
`onUpdateTask` posts. `heard` is what the client of a request was told last about each id, by the
answer, by the snapshot of `status`, or by a post. `Command` is written from `install` and
`remove` and not from `Accept` of the registry, so that `ImplementsRegistry` says something: that
the daemon's check for a known id is made when the command starts and not when it was asked for.

A handler does not run between the release of a failed install and its rollback, as in
`AppInstaller`. The dev methods have the same control; what `verify` changes is in `AppInstaller`.

### 2.5 ServiceFiles

`files`, `manifest` and `listed` are the disk, for each tree: which files are there, whether there
is a manifest that can be read (it is `broken` from being opened, which truncates it, until it is
written), and what it lists. `hub` is what the hub has read, modelled from the replies the code
expects of it: an add needs a manifest that can be read, a remove may be refused if there is
nothing to remove. `at` is what the daemon does next; `todo` are the files `install` has still to
write, `calls` the calls left in the chain, `trees` the path infos `remove` has still to clean, `left` the
paths `removeOne` has still to unlink, and `kept`, history, those it could not.
`undo` is set when an install has failed and its rollback is due; between the two the app is not
installed again, which is `Undoing` of `CommandRegistry`. `installed` is history.

A file is a kind and the id it belongs to. Each file is one action, so a failure (`WriteFails`) or
a crash may come between any two. `install` checks the service ids only after the manifest has
been written; such a failure is one of those of `WriteFails`. That the results of writes, other
than of opening a file, are not looked at is the second alternative of `WriteManifest`; of the other
files it changes only the content, which is not modelled. Any unlink of a remove may fail, that of the
manifest as well: the code looks at no result (`ServiceInstallerUtility.cpp:281-285`), so the manifest
goes whatever is left of its files.

The manifest of a package with services is named after the id in `packageinfo.json`
(`ServiceInstallerUtility.cpp:813,843`), that of one without after the id of the app, which is also what
the hub is told and `removeOne` looks for. `foreign` says of a version that the two ids differ. The
install of such a version (with services: `NamedAfterApp`) leaves the manifest of the app's name as it
was, and the hub reads that one, or none.

One app is modelled. Files are named after ids that begin with the id of the app; apps share a file
only if the id of one continues that of the other and both bring a service of the same name. That, and
what a manifest named after another id does to the app of that id, is not modelled.

### 2.6 PermissionFilter

The input is what the two JSON files may say: an array of any items, some of another type than
string, or no array at all. A group is the sequence of the tokens of its name, which is all that
prefixes and suffixes look at. `RequestedGroups`, `LoadAllowlist`, `Filter` (an iteration),
`GrantedGroups` and `AppendOwn` are the parts of `generateUnifiedAppPermissionsFile` in order.
`FilterIsReference` says
without a loop what is kept and dropped: the requests that may, or may not, be granted, each at its
first place (`FirstPlaces`), in order and none missing (`IsSelection`).

### 2.7 ChildProcesses

`object` is the wrappers: `kind` says of which class one is, `m_pid` and `m_sourceId` are `m_childPid`
or `m_pid`, and `m_watchId` or `m_sourceId`; `m_targetItems` is the length of `m_targetItemList`.
`watch` are GLib's child watches, `proc` the processes of the system, `archive` what is in
`tmp/<id>`, `lockFile` opkg's file in each root. A wrapper is made and started in one callback; its
owner destroys it at any time (`Destroy`), which is more than tasks do, so that the module holds for
any owner. Among free ids the choice is fixed: with few ids a stale one is soon given out again.

Of GLib and the system it is assumed that a child watch fires once, after the child has exited, and
reaps it; that a pipe whose writer has gone is readable until its watch is dropped
(`AppInstallerUtility.cpp:55-57` says so); that a source of a lower priority is dispatched only when
no other is ready; that a child watch added for a child which has exited already still fires. opkg is
assumed to remove its lock file by name when it exits and to leave it when it is killed. A command
uses `tmp/<id>` alone, which is "one command per id" of `CommandRegistry`; one id is modelled. After
a crash children run on, without the daemon as their parent; a jailer among them concerns nothing here.

### 2.8 ServicePermissions

`apiFiles` and `groupFiles` are the contents of the two files of each service, a function from groups
to methods and to the trust level they ask for. `Interface` is the set of the methods of a service. A
service is what its `services.json` says after one of
the two schemas has let it pass. The new schema's `generateAPIPermissionsFileForServiceNewSchema` is
translated as it is: it goes through the `groups` of the element, whose items are objects, and
`asString` of an object is empty (`AsString`). `MayCall` is what the files mean to the hub: a group the
caller has, which holds the method and asks for the trust level of the caller's role.

## 3. Model checking

| run | instance | what it checks |
|---|---|---|
| `step_settings` | 4 kinds of image, 7 install arrays, 720 remove arrays (6 chains of stages, each with 5 of its entries in all 120 orders) | `RunsSupportedStages`, `NeverJumpsAhead` |
| `installer` | 2 ids, 2 tasks, all stages, 1 crash, calls can be sent | `OneContinuation`, `NoDanglingCallback`, `ReleaseOwed`, `LockKept`, `EndsWithVerdict`, `RollbackKeepsData`, `OpkgExclusive`, `NothingAfterError`, `ImplementsRegistry` |
| `degraded` | 1 id, packaged and unpackaged, verified and dev, 2 tasks, calls may fail to be sent, luna directory missing, `FairSpec` | `ImplementsRegistry`, `CommandEnds` |
| `dev` | 2 ids, one of them privileged, verified and dev commands | `NoAppLeftLocked`, `CompletedMeansDone`, `PrivilegedUntouched` |
| `call_chain` | all chains of the daemon, apps with up to 3 services, calls that may or may not fail to be sent, `FairSpec` | `LockedBeforeClosed`, `OnlyRemovableLocked`, `ClosedMeansAllClosed`, `NothingReachesDeleted`, `RunTellsTheTruth`, `ImplementsAppClosing`, `ChainEnds` |
| `service` | 2 ids, 2 requests, one of them possibly without a timeout, `FairSpec` | `AnsweredOnce`, `HearsTheTruth`, `CommandPerAcceptance`, `ImplementsRegistry`, `EveryRequestAnswered` |
| `service_files` | a package with a service, one without, a stub, and one with another id in `packageinfo.json`; both trees; 2 faults | `InstalledIsComplete`, `NoFileForgotten`, `HubToldFirst` |
| `permission_filter` | up to 3 requested groups, up to 2 in the allowlist, of every sort; packages with up to 2 services of both schemas | `GrantsAreGrantable`, `FilterIsReference`, `OwnAppMayCall` |
| `children` | 2 wrappers, 2 process ids, 2 source ids, 2 roots, 1 line of output, 1 crash, `FairSpec` | `NoStrayWatch`, `LockIsOpkg`, `ToldInFullAndOnce`, `UnpacksItsOwn`, `LockFilesTended`, `OpkgIsReaped` |
| `rollback_root`, `strays`, `new_schema` | as above | violated, see 3.3 |

Every property is stated with its reason in the module. Each is broken by a mutant of the code,
listed in `PROJECT.json`; the mutants stand beside the definitions they replace.

### 3.1 Bounds

* Two ids and two task objects: the interactions between commands are pairwise (the opkg flag,
  one package under two ids, the queue of deferred calls). A third task only waits. With one id,
  two tasks let an ended one and its successor exist at once (`degraded`), three a destroyed one, its
  successor and the rollback (`strays`). `Install`, `Remove` and `Rollback` need a free object; this
  bounds the number of commands alive, not the number of commands, as objects are reused.
* One crash: the state after it is an initial state with other values of `appLock`, `disk` and
  `orphans`; a second one adds nothing the first does not reach.
* `IpkInstallCurrent` stands for four statuses opkg reports and no code tells apart.
* Three services per app: one native and two others, or any mix, let an answer race a refusal and
  a call that cannot be sent. Chains are independent of each other, one at a time is enough.
* Two requests: a remove that waits for its answer, or a subscriber of `status`, and the owner of
  a command. The safety properties are proved for any number of requests (section 4). A request
  is used again when its client has left, so that the number over time is not bounded.
* Two faults (`MaxFaults`; a write or an unlink that fails, a refusal, a crash) in `service_files`: one
    leaves something behind, another one meets it. Successful installs and removes in between are not
  bounded. The proofs need no bound.
* Four groups in `permission_filter`, one that may be granted, one denied by a prefix, one by a
  suffix, and `public`; three requests contain one repeated before and after another one.
* Two wrappers in `children`: one whose child runs, and one more, of the same or of another kind,
  destroyed or at work. A free process or source id is needed to start a child, which bounds how many
  run at once, not how many ever do; two source ids are few enough for a stale one to be given out
  again at once. One line in the pipe is as good as many: what matters is whether it is empty.
* Two services in `permission_filter`: the loops treat each for itself.
* `CHECK_DEADLOCK FALSE` is set where the system really stops: when the tables are loaded, when
  a chain has been deleted and when the groups have been written.
* Tasks are symmetric in `AppInstaller`; ids where `PwaIds`, `DevIds` and `Privileged` are empty, as in
  `installer`. The runs with a liveness property use no symmetry. Unpackaged installs are in `degraded` and
  `dev`; the theorems about what `installer` checks cover them.
* The tables of `dev` and `degraded` are those of an image without a jail and SMACK;
  the stages left out there are synchronous or one child and are all in `installer`.

### 3.2 Fairness

`WF` on the actions inside a callback: code runs on. `SF` on the deferred calls: a ready source
of the main loop is dispatched at last, though between two iterations other callbacks disable
the action for a moment, which is why weak fairness would be too weak. `SF` for each task on
"its child exits, or its service answers": this is an assumption about the
environment, and a necessary one, since no call of a chain has a timeout
(`base/CallChain.cpp:96`). `CommandEnds` is checked under it, and what it shows is that the
daemon itself never loses a command. The lines of opkg's output are not in it: a child exits some day
however much it writes.

`ChainEnds` assumes that every service that was called answers, for the same reason.
`EveryRequestAnswered` does not: `remove` sets a timeout of its own, and only the dispatch of
timeouts is assumed, strongly, as other callbacks come in between. A request in
`MayBeUntimed` may find that `LSCallSetTimeout` fails, which the code logs before it waits without
a timeout; nothing is promised for it.

In `children` a child exits some day (`WF`); lines, ends of output and watches of the default priority
are dispatched (`WF`: what is ready stays ready); the exit of opkg, of a lower priority, is dispatched if
it finds nothing else ready over and over (`SF`). `OpkgIsReaped` shows that other commands, which come
and go all the time, do not keep it from that, and that the daemon's own watches do not.

### 3.3 What the code does otherwise than it says

* `RollbackUsesSameRoot`: an unpackaged app is always copied to the verified root, the rollback
  of a failed dev install looks for it in the developer root.
* `NoDanglingCallback` when a call cannot be sent: GetIpkInfoStep (and DataRemoveStep,
  ServiceUninstallStep) return the chain's false although the chain's handler has already moved
  the task on.
* `ApisAreInTheirGroups`: the schema of `services.json` has groups for each command, the code looks at
  those of the element the command is in, and reads their names in a way that gives an empty one. All
  methods of such a service are in a group `<id>.` that no file declares.

### 3.4 Limits of the properties

* `LockKept` is checked for verified commands on packages of their own id. A dev install may
  carry a package with the name of another id; then the first of the two commands to end unlocks
  the package for both (`Task.cpp:459`). `NoAppLeftLocked` is checked with such installs.
* `EndsWithVerdict` has one exception, an opkg that exits with success and whose last word was not
  "done"; and it is checked with all luna directories configured, since a missing one ends the
  command silently (`ServiceInstallStep.cpp:62-66`, `ServiceUninstallStep.cpp:74-88`).
* `RollbackKeepsData` and `ImplementsRegistry` say when the rollback runs and what it may not do,
  `CompletedMeansDone` that a verified one which reports complete has left no package of opkg. That it gets so far
  is promised by nothing: it is one attempt, refused without effect if its opkg step finds the flag taken.
* The copy of a failed unpackaged install stays where it is, whatever its rollback reports. What opkg has
  not installed is deleted only in `onDataRemoved` (`DataRemoveStep.cpp:78-95`), and the daemon's own
  remove ends before that stage (`IpkRemoveStep.cpp:91-95`), so as not to touch the user's data. A copy that
  fails half way has no rollback at all: nothing cleans up after it, and no property says what is left.
* A failing remove that reports the error status of an install (`RemoveSmackStep.cpp:135`) is a verdict
  to `EndsWithVerdict`. That a service which never answers blocks its command is the assumption of 3.2,
  and no property is about it.
* `NeverJumpsAhead` needs its premises: with a supported stage between two dropped ones, or with a
  `keepStatus` that is left from the install array and is a status of the remove array too, the
  loader can put a later stage in the place of a supported one. TLC finds both when a premise is dropped.
* `OpkgExclusive`, `LockIsOpkg` and `LockFilesTended` hold within one life of the daemon. After a respawn an
  opkg child of the old
  process may run beside a new one.
* `HearsTheTruth` rests on the last status of a command being a verdict, which is `EndsWithVerdict`
  with its exceptions above. The converse is not promised: a subscriber of an earlier command also
  receives the statuses of later ones, and those of a rollback.
* `CompletedMeansDone` speaks of verified commands without a crash. Of an install it says that the app is
  in its place, unless opkg reported a failed validation and exited with success all the same: the code
  then goes on (`IpkInstallStep.cpp:124,129-165`). Of a remove by a client it says that the app is in
  neither root; of a rollback, that no package of opkg is there. It fails, too, where calls cannot
  be sent and unpackaged apps are installed, as another consequence of the stray callbacks in 3.3: a
  remove whose service calls cannot be sent (ServiceUninstallStep) goes on to its opkg child and is then
    reported failed and its id released, while the child runs on; a new unpackaged install of the id takes
  no opkg lock, and that child removes the
  package before `InstallComplete` is reported. A packaged install is refused by the flag meanwhile.
* `NoFileForgotten` has three exceptions. When the manifest is opened, an update without a service of the
  version before leaves the files of that service for ever, and a crash between opening and
  writing it, or a full disk, leaves all files of the version before. A file whose own unlink
  failed stays when the manifest goes. And what is written for a version with another id in
  `packageinfo.json` is listed in a manifest that no remove of the app looks for.
* Of such a version `InstalledIsComplete` says that its files are there and that the hub has the manifest
  of the app's name as it stands, but not that this manifest lists them.
* `HubToldFirst` excepts removes in which the hub has refused a call: the chain stops there and
  the files of both trees go all the same (`ServiceInstallerUtility.cpp:221-234`).
* `UnpacksItsOwn` excepts an `ar` or `tar` of a dead daemon that still writes to the directory. The file
  `control` itself is not removed before an extraction; an archive that has none is not modelled.
* `OwnAppMayCall` is about services of the old schema whose id is the name of their directory. The
  app gets the group of the directory (`ServiceInstallerUtility.cpp:440-441`), the service declares that
  of its id; and with the new schema there is no `<id>.group`.
* `GrantsAreGrantable` and `FilterIsReference` are about the groups written; that the file is
  written at all is in `ServiceFiles`.

## 4. Proofs

Every safety property and action property that a passing run checks is a theorem, but for
`NeverJumpsAhead` (4.8), and so is each of the three refinements. The proofs hold for any values of the
constants that fit the named assumptions
of the modules. What more a theorem assumes is in its statement:

| hypothesis | theorems | why |
|---|---|---|
| `~SendMayFail` | `CommandsAreCarried`, `CallbacksFindTheirTask`, `CommandsEndWithVerdict`, `FailedCommandsStop`, `AppsAreUnlocked` | each is false without it, as TLC finds: a call that cannot be sent lets a stage go on whose command an outer frame then ends (run `strays`), so that there are two continuations, and the second one changes the status of a failed command or takes a lock that nobody gives back |
| `~SendMayFail` or `PwaIds = {}` | `CompleteIsTrue` | 3.4: an unpackaged install does not wait for the opkg child of a remove that was given up |
| `LunaDirs = BOOLEAN` | `CommandsEndWithVerdict` | a missing luna directory ends a command without a word (3.4) |
| `DevIds = {}` | `LocksAreKept` | a dev install of a package of another name unlocks it for both (3.4) |
| `crashes = 0`, as the premise of what is invariant | `AppsAreUnlocked`, `CompleteIsTrue` | a crash leaves locks behind, and an opkg that works on |

The other theorems about `AppInstaller` hold whatever calls fail to be sent. What a callback to a
destroyed object does is undefined in the code; the theorems are about the outcome the model gives it,
that the object is found as it was (2.1).

### 4.1 AppInstaller

The assumptions are those named in the module. `ConstantsAssumption`, `StepTablesAssumption` (tables
map statuses to statuses) and `ErrorsEndCommands` (no entry continues from an error) are enough for
`TypeCorrect`. `StepTablesInOrder` is the order of stages in `files/conf/appinstalld-conf.json.in` with
any of the stages bypassed that an image does not support (`StagesChain`): parsing comes first and
once, closing before opkg, data after the package, and so on. It names what the proofs need and does
not fix the tables. All three are proved of the tables that are loaded from the shipped file
(`ShippedTablesAreInOrder`, 4.2), and TLC evaluates all four on every run of `MCAppInstaller`.

**`AppInstallerProofs`.** The obvious invariant, that a command has one continuation and nothing
outlives it, is false when calls cannot be sent, and yet the entries of the map and their releases are
right then. `IInv` is what remains, stated so that it gives the whole where calls can be sent:

* `FramesOK`: the functions on the stack (`call`, `current`, `unwind`) belong to one command. An outer
  frame has something left to do only below a stage of `NestedSteps`, those that can be reached on the
  same stack from a stage whose call could not be sent. That `NestedSteps` is closed under the
  tables (`NestedGoesOn`) is why the order of the stages is needed already here: in another order a
  stage that starts a child under a frame that will end its command could be any stage at all.
* `EntriesOK`: an entry of the map is a task whose command names that id; a command that is not in
  the map is a `Stray`, one that has ended and is still to be called back.
* `CallsAreForLive`: a deferred call is for a command that has not ended and that nothing else
  continues, so that a stray is never continued by the queue.
* `LiveAreCarried`: a command that has not ended has at least one continuation
  (`CommandsAreNeverStuck`; "at most one" is what fails).
* `ReleaseOwed` and `ReleasesAnId`: the ids whose command has ended are those with one release.
* `Orderly`, while calls can be sent: no frame goes on after the end of its command, and an ended
  command waits for nothing. With it `NoStrays` gives `OneContinuation` and `NoDanglingCallback`.

`BookkeepingHolds` is `Spec => []IInv`. From it follow `CommandsAreNeverStuck`, `ReleasesAreOwed`,
`OneOpkgAtATime` and `RegistryIsImplemented`, without hypotheses, and `CommandsAreCarried` and
`CallbacksFindTheirTask`.

About thirty actions touch the same few variables in the same ways. The proofs classify them once:
`StepMoves`, `ChildMoves` and `ReplyMoves` show that each action of a step, of a child or of a reply
leaves the map and the commands alone (`Quiet`) and is one of a few moves of the current task (goes on
in the callback, starts waiting, defers a call, fails); that such a move keeps `IInv` is shown once.
Creating, releasing, finishing and crashing have lemmas of their own. `TaskCallAppended`, `HeadTaken`,
`FinishCallsAppended` and `RollbackReplaced` say what operations on the queue do to "is deferred
exactly once", which is all the invariant needs to know of sequences. `OpkgExclusive` holds for strays
as well, because the child they wait for keeps `m_locked` set.

The refinement of `CommandRegistry` needs one thing more of the queue, `RollbacksFollow`: a deferred
rollback stands right behind the release of its id, or is first when that release has been done, and
then no callback runs. With it the abstract `Undoing` holds exactly when the concrete loop can do
nothing but the rollback, and each step maps to the registry's action of the same name or to none; a
stray's callbacks map to none, since `finish` of a finished task changes nothing.

**`AppInstallerStageProofs`, the stages.** `StageInv` says for each task which statuses it may have
with what it waits for, with the function that is about to be entered, with its deferred call and at
its end (`WaitStage`, `WaitSteps`, `Fits`), and that the table goes on after the stage it is in
(`Configured`); of a command that has ended, which replies and children may still come (`LateWaits`).
Its content is that the stages, which know each other only through the words they write into
`m_step`, do fit together, for whichever stages are bypassed. `UserDataAreKept` follows from it, and
with `Orderly` `CommandsEndWithVerdict` and `FailedCommandsStop` (an action property). `Apart` is
what makes it a proof about one task at a time: a step of one leaves the others where they are.

**`AppInstallerStageProofs`, the device.** What the commands do together is the product of a few moves
on the lock (`LockMove`) and on the disk (`DiskMove`). `PrivilegedAppsAreSafe` needs that no opkg child
left by a crash works on a privileged package either (`PrivilegedInv`). `AppsAreUnlocked` needs that
the empty package name is never locked (`LeftLockedInv`). `LocksAreKept` needs that the daemon makes no
dev command by itself (`AllVerified`), so that packages have the names of ids, and that one live
command per id is in the map; a stray may still be granted a lock, but takes none away.
`CompleteIsTrue` follows a verified install from where its package is on disk to its end, and a remove from
where the directories of its app are emptied (a rollback: from where opkg has ended), which is in the
callback that ends it (`Done`; the shipped
table has `RemoveComplete` after `DataRemoveComplete` only, a part of `RemovesInOrder`). That no other
live command touches the package meanwhile is the map; that no stray does is, where
calls cannot be sent, that a stray waits for the opkg child of a remove and holds `m_locked`, so that
an install cannot have got past its opkg step (`NoneUnpackaged`, `RemovedAlone`, with `OpkgExclusive`);
and that no opkg child of an earlier life does is `crashes = 0`.

### 4.2 StepSettings

`SupportedStagesRun` (`RunsSupportedStages`) is for any image and any two arrays, of any length, that
`Bypassable` allows; each of the two is right whatever the other one is. A dropped entry
hands the status it was reached by to the entry that follows its stage, which may be dropped as well.
From each status that remains there leads a chain through the dropped entries to one that is kept
(`Leads`, `EndsAt`), and the loop invariant (`LoadedUpTo`) says of each chain how much of it has been
read: either its end, and then the table has it under the status the chain begins with; or only
dropped entries of it, the last of them the last one dropped at all, and then `keepStatus` is that
status. One variable is enough because `Bypassable` lets no second chain
begin to be dropped before the first has ended. The two loops are the same lemmas for two sets of
dropped stages, and the `keepStatus` that the first leaves to the second belongs to no chain of it.
The reference is stated without recursion, so that the induction is the loop.

`ShippedTablesAreInOrder` computes the reference for the shipped arrays on each image and finds
`IsStepTable`, `EndsAtErrors`, `InstallsInOrder` and `RemovesInOrder`: the assumptions of
`AppInstaller` are consequences of the file and of the code that loads it.

### 4.3 CallChain

All of `CallChain` but its liveness is proved without hypotheses, for any services and whatever calls
fail to be sent. `IInv` does not look into the queue: a chain is in one of four situations, a function
of it is entered, an item waits, a call is deferred, or it has finished (`OneWay`); while SvcClose has
not signalled, the chain stands still at it (`QuitsWaitedFor`), without which a late quit could signal
into the next item; only the deferred call deletes (`DeletedOnce`); and what `run` can have returned
(`RunOnce`). It gives `ChainsAreSafe` and `RunIsTruthful`.

`ChainInv` adds the queue. Before a chain runs it is what the step has added (`FrontIsCalled`, which
also says that the item that waits is the one in front), and then one of seven for a chain that closes
(`AtInfo`, `AtRemovable`, `AtLock`, `AtRunning`, `AtClose`, `AtServices`, empty), with the conditions
that have still to come (`ConditionsWait`); others go straight (`OthersGoStraight`). `LockFollows` says
what is known of the app and whether it is locked at each of these; `ServicesCount` that services that
have answered, were asked, are still to be asked or have refused are never more than
`m_numServices`, which is why `m_numResponse = m_numServices` means that all have closed. From it
follow `LockComesFirst`, `RemovableAppsOnly`, `ClosedIsTrue`, and, action by action,
`ClosingIsImplemented`. `ConcatIs` is what is needed of sequences: a concatenation of given ones is
known by its elements.

### 4.4 AppInstallService

For any number of ids and requests: `AnswersAreRight` (`AnsweredOnce`), `ClientsHearTheTruth`
(`HearsTheTruth`), `ServiceImplementsRegistry` and `CommandsMatchAcceptances`
(`CommandPerAcceptance`). `HearsTheTruth` needs `HeardOnlyAsked`: the clients that a post of an id does
not reach have not been told anything about that id. `CommandPerAcceptance` needs that only removes
wait for applicationManager (`OnlyRemovesAsk`).

### 4.5 ServiceFiles

For any packages and any number of faults: `InstallsAreComplete` (`TypeOK`, `InstalledIsComplete`),
`FilesAreRemembered` (`NoFileForgotten`) and `HubIsToldFirst` (`HubToldFirst`). The invariant follows
an install and a remove through their parts. For an install: nothing counts as installed in its tree
(`OneAtWork`), the manifest, where it has the app's name, says everything or nothing once it has been
opened (`ManifestFirst`), each file of the version is written or still to be written (`WrittenOrTodo`),
and the last call of the hub is an add (`CallsOwed`). For a remove: a tree whose manifest the hub still
has is owed a call (`CallsOwed`), so when no call is left and none was refused, the hub has none of them
(`DroppedOrRefused`); and a listed file of the tree at work is gone, still to be unlinked, or was kept
(`UnlinkedOrKept`), so that no other file is forgotten with the manifest. `WrittenIsListed` is the fact
about the code that makes the manifest useful: all
that `install` writes is listed, also for a stub.

### 4.6 ChildProcesses

For any wrappers, processes, sources and roots, with crashes: `WatchesCallTheLiving`
(`NoStrayWatch`), `OneOpkg` (`LockIsOpkg`), `OwnersAreTold` (`ToldInFullAndOnce`), `PackagesAreRead`
(`UnpacksItsOwn`) and `LocksAreTended` (`LockFilesTended`). The only assumption is that the constants
are what they are called. The invariant says the same fact from three sides, since each action moves
one of them: an object knows its child and its watch (`ObjectsKnow`), a watch knows a child and the
object that knows it (`WatchesKnow`, with "whoever watches opkg tells `m_locked` of its exit"), a
child has one watch (`OneWatch`). `OutputRead` says that only a wrapper of opkg has output attached and
that its end comes after the exit of the child; `UnpacksAlone` that a package that was alone in
`tmp/<id>` remains so.

### 4.7 PermissionFilter and ServicePermissions

`GrantsAreSafe` (`TypeOK`, `GrantsAreGrantable`) holds for any files, groups and services: what is kept
on the way is grantable (`KeptIsGrantable`). `FilterIsRight` shows that the loop computes
`FilterIsReference`: what it has kept and dropped after n requests is the selection at the first places
among these n (`KeptSoFar`, `DroppedSoFar`), and one more request is one more place at the end or none
(`SelectsOneMore`). The reference is about places in a sequence and not a recursive function, so that
no induction over data is needed: the induction is the loop. `AppReachesServices`
(`OwnAppMayCall`, of the composed specification `SSpec`) follows the group of a service from its two
files (`FilesFollow`) into the groups that the filter keeps (`ServicesGranted`); `FilterHoldsWithFiles`
carries the two results about the filter over to `SSpec`.

### 4.8 Only model-checked

* `CommandEnds`, `ChainEnds`, `EveryRequestAnswered` and `OpkgIsReaped`: liveness under fairness.
* `NeverJumpsAhead`, for the chains and orders of `step_settings`.

The type invariants of `AppInstaller`, `AppInstallService`, `ServiceFiles`, `PermissionFilter`,
`ChildProcesses` and `StepSettings` are proved (that of `StepSettings` in `TablesAreLoading`; that of
`CallChain` documents its variables, whose types are parts of `ChainInv`). Being proved
they are not in the runs.

## 5. Not modelled

See `components` in `PROJECT.json`. Left out for good: wording and layout of replies and
subscriptions, logging, reading settings, parsing of control and JSON files (reduced to what
they may say), the bus library. `ENABLE_SESSION` code is not built.

## 6. Plan

1. Done: the step tables, the command engine, the registry it implements, and their first proofs.
2. Done: `CallChain` and the refinement of `AppClosing`.
3. Done: `AppInstallService` over `CommandRegistry`, its theorems.
4. Done: `ServiceFiles`, its theorems.
5. Done: `PermissionFilter`.
6. Done: the theorems of `AppInstaller` (registry, stages, locks, packages), `CallChain` (every
   property and the refinement of `AppClosing`) and `PermissionFilter` (the loop of `filter`).
7. Done: the contents of the API permission and group files (`ServicePermissions`), with a finding.
8. Done: child processes, opkg's lock file and what a crash leaves of both (`ChildProcesses`).
9. Done: the theorems about `ChildProcesses` and `ServicePermissions`.
10. Done: the theorems of `StepSettings`, with the assumptions of `AppInstaller` about its tables; those
    of `AppInstaller` for calls that cannot be sent, where they are true.
11. Left: the SMACK rules, as files that an update forgets, in the manner of `ServiceFiles`.
