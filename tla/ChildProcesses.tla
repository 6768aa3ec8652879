------------------------------ MODULE ChildProcesses ------------------------------
(***************************************************************************)
(* The child processes of the daemon and the objects that wrap them:       *)
(* AppPackage (ar, then tar, for the control file of an ipk), Jailer and   *)
(* AppInstallerUtility (opkg, one at a time).  A wrapper is a member of a  *)
(* step or of an item of a chain and dies with it; its child may live on,  *)
(* and so may what GLib still has to dispatch for the child.               *)
(*                                                                         *)
(* AppInstaller sees of all this that a step waits and is called back.     *)
(***************************************************************************)
EXTENDS Naturals

CONSTANTS
    Wrapper,        \* the objects, born again once destroyed
    Pid, NoPid,     \* process ids, free again once the process is reaped
    SourceId, NoSource,     \* ids of GLib sources, which come round again
    Root,           \* the install roots
    DevRoot,        \* the one that needs the developer mode
    MaxLines,       \* bound on the lines in the pipe from an opkg child
    MaxCrashes      \* bound on crashes of the daemon

ASSUME ChildConstants ==
    /\ NoPid \notin Pid /\ "stale" \notin Pid /\ NoSource \notin SourceId
    /\ {"reaper", "unlocker"} \cap Wrapper = {}
    /\ DevRoot \in Root
    /\ MaxLines \in Nat /\ MaxCrashes \in Nat

Kind == {"package", "jailer", "opkg"}
Program == {"ar", "tar", "jailer", "opkg"}

(***************************************************************************)
(* An object.  m_pid: m_childPid or m_pid.  m_sourceId: m_watchId or       *)
(* m_sourceId.  AppPackage: m_targetItems, how many archives are still to  *)
(* unpack.  AppInstallerUtility: out, the watch of the child's stdout, and *)
(* unread, the status lines in that pipe.  Observed: answers, how often    *)
(* the owner was called back; alone, that nobody else was at work in       *)
(* tmp/<id> when ar was started.                                           *)
(***************************************************************************)
Object ==
    [kind : Kind, m_pid : Pid \cup {NoPid}, m_sourceId : SourceId \cup {NoSource},
     m_targetItems : 0 .. 1, out : {"none", "attached", "dropped"}, unread : 0 .. MaxLines,
     answers : Nat, alone : BOOLEAN]
NoObject ==
    [kind |-> "none", m_pid |-> NoPid, m_sourceId |-> NoSource, m_targetItems |-> 0,
     out |-> "none", unread |-> 0, answers |-> 0, alone |-> FALSE]

\* A process; own: a child of the daemon that runs now, not of one that crashed.
Process ==
    [state : {"running", "exited"}, program : Program, own : BOOLEAN, ok : BOOLEAN,
     root : Root, hasLock : BOOLEAN]
NoProcess ==
    [state |-> "free", program |-> "ar", own |-> FALSE, ok |-> FALSE,
     root |-> DevRoot, hasLock |-> FALSE]

\* A child watch calls back an object or an anonymous function.
Watch == [pid : Pid, target : Wrapper \cup {"reaper", "unlocker"}]
NoWatch == [pid |-> NoPid, target |-> "none"]

\* Whose the archive in tmp/<id> is: of the ipk that is being parsed, or of another.
Whose == {"none", "this", "other"}

VARIABLES
    \* the daemon
    object,         \* Wrapper -> object
    m_locked,       \* AppInstallerUtility::m_locked
    watch,          \* GLib's child watches
    \* the system
    proc,           \* Pid -> process
    archive,        \* tmp/<id>/control.tar.gz
    lockFile,       \* opkg's lock file: NoPid, who holds it, or left by a dead one
    crashes

vars == <<object, m_locked, watch, proc, archive, lockFile, crashes>>

Init ==
    /\ object = [o \in Wrapper |-> NoObject]
    /\ m_locked = FALSE
    /\ watch = [s \in SourceId |-> NoWatch]
    /\ proc = [p \in Pid |-> NoProcess]
    /\ archive = "none"
    /\ lockFile = [r \in Root |-> NoPid]
    /\ crashes = 0

---------------------------------------------------------------------------
(* GLib.                                                                   *)

Running(p) == proc[p].state = "running"
Exited(p) == proc[p].state = "exited"

NewProcess(program, root) ==
    [state |-> "running", program |-> program, own |-> TRUE, ok |-> FALSE,
     root |-> root, hasLock |-> FALSE]

(***************************************************************************)
(* A free id.  Ids come round again, and what hurts most, if somebody has  *)
(* kept it, is one that is taken again at once.                            *)
(***************************************************************************)
Fresh(ids) == CHOOSE id \in ids : TRUE
FreePids(procs) == {p \in Pid : procs[p] = NoProcess}
FreeSources(watches) == {s \in SourceId : watches[s] = NoWatch}

(***************************************************************************)
(* g_spawn_async and g_child_watch_add by the object o, which is then new  *)
(* but for the ids: the child runs and is watched.  procs and watches are  *)
(* the tables before.                                                      *)
(***************************************************************************)
SpawnWatched(o, new, program, root, procs, watches) ==
    LET p == Fresh(FreePids(procs))
        s == Fresh(FreeSources(watches))
    IN  /\ FreePids(procs) # {} /\ FreeSources(watches) # {}
        /\ proc' = [procs EXCEPT ![p] = NewProcess(program, root)]
        /\ watch' = [watches EXCEPT ![s] = [pid |-> p, target |-> o]]
        /\ object' = [object EXCEPT ![o] = [new EXCEPT !.m_pid = p, !.m_sourceId = s]]

\* What a child watch leaves when it is dispatched: the child is reaped, the source gone.
Reaped(s) == [proc EXCEPT ![watch[s].pid] = NoProcess]
Fired(s) == [watch EXCEPT ![s] = NoWatch]

\* The child watch s of target is ready.
Ready(s, target) ==
    watch[s] # NoWatch /\ watch[s].target = target /\ Exited(watch[s].pid)

\* The stdout of the child of o has a line to read, or is at its end.
Readable(o) ==
    /\ object[o].out = "attached"
    /\ object[o].unread > 0 \/ ~Running(object[o].m_pid)

\* Mutant of Preempted: the exit of opkg is watched at the default priority.
NeverPreempted == FALSE

\* A source of the default priority is ready: none of a lower one is dispatched.
Preempted ==
    \/ \E o \in Wrapper : Readable(o)
    \/ \E s \in SourceId :
           /\ watch[s] # NoWatch /\ Exited(watch[s].pid)
           /\ watch[s].target \in Wrapper => object[watch[s].target].kind # "opkg"

---------------------------------------------------------------------------
(* Objects.                                                                *)

(***************************************************************************)
(* A step or an item of a chain is made, with the object in it, and calls  *)
(* the object's one operation in the same callback.  Where that fails the  *)
(* object goes with the step, and only the disk has changed.               *)
(***************************************************************************)
Unborn(o) == object[o] = NoObject
New(k) == [NoObject EXCEPT !.kind = k]

\* A child of someone else may still write to tmp/<id>.
TmpInUse == \E p \in Pid : Running(p) /\ proc[p].program \in {"ar", "tar"}

\* The ipk at work is not, or no more, the one whose archive is in tmp/<id>.
Disowned == IF archive = "this" THEN "other" ELSE archive

(***************************************************************************)
(* g_source_remove of what the object believes to be its watch; a child    *)
(* still known is handed over to an anonymous one.                         *)
(***************************************************************************)
HandOver(o, target) ==
    LET removed == [watch EXCEPT ![object[o].m_sourceId] = NoWatch]
    IN  watch' = IF object[o].m_sourceId = NoSource THEN watch
                 ELSE IF object[o].m_pid = NoPid THEN removed
                 ELSE [removed EXCEPT ![Fresh(FreeSources(removed))] =
                                          [pid |-> object[o].m_pid, target |-> target]]

\* Mutant of Clear: the child's exit is not told to m_locked.
ClearWithReaper(o) == HandOver(o, "reaper")

\* AppInstallerUtility::clear; the stdout watch goes with the object.
Clear(o) == HandOver(o, "unlocker")

\* The destructors: of AppPackage and Jailer, and clear of AppInstallerUtility.
Destroy(o) ==
    /\ object[o] # NoObject
    /\ IF object[o].kind = "opkg" THEN Clear(o) ELSE HandOver(o, "reaper")
    /\ object' = [object EXCEPT ![o] = NoObject]
    /\ archive' = IF object[o].kind = "package" THEN Disowned ELSE archive
    /\ UNCHANGED <<m_locked, proc, lockFile, crashes>>

\* The functions that clear and the destructors leave behind.
ReaperFires(s) ==
    /\ Ready(s, "reaper")
    /\ proc' = Reaped(s) /\ watch' = Fired(s)
    /\ UNCHANGED <<object, m_locked, archive, lockFile, crashes>>

UnlockerFires(s) ==
    /\ Ready(s, "unlocker")
    /\ proc' = Reaped(s) /\ watch' = Fired(s)
    /\ m_locked' = FALSE
    /\ UNCHANGED <<object, archive, lockFile, crashes>>

---------------------------------------------------------------------------
(* AppPackage and IpkParseStep, which owns it.                             *)

\* Mutant of OldArchive: what an interrupted install left is kept.
KeptArchive == Disowned

\* control.tar.gz is removed before ar runs.
OldArchive == "none"

\* onPackageExtracted, and setError of its task, remove the directory.
RemoveTmp == archive' = "none"

\* One command at a time is in flight for an app id, and uses tmp/<id>.
TmpFree == \A o \in Wrapper : object[o].kind # "package"

\* IpkParseStep::proceed and AppPackage::extract of the control archive.
Extract(o) ==
    /\ TmpFree /\ Unborn(o)
    /\ archive' = OldArchive
    /\ SpawnWatched(o, [New("package") EXCEPT !.m_targetItems = 1, !.alone = ~TmpInUse],
                    "ar", DevRoot, proc, watch)
    /\ UNCHANGED <<m_locked, lockFile, crashes>>

\* The directory cannot be made, or ar not be started.
ExtractFails ==
    /\ TmpFree
    /\ RemoveTmp
    /\ UNCHANGED <<object, m_locked, watch, proc, lockFile, crashes>>

\* The child watch of o was the last thing o waits for: its owner is told.
Answered(o) ==
    object' = [object EXCEPT ![o].m_pid = NoPid, ![o].m_sourceId = NoSource, ![o].answers = @ + 1]

(***************************************************************************)
(* cbExtractComplete and extractOneItem.  ar is followed by tar for each   *)
(* archive; the owner is told when none is left, or at the first failure.  *)
(* Nothing cancels an extraction.                                          *)
(***************************************************************************)
UnpackNext(o, s) ==
    /\ object[o].kind = "package" /\ Ready(s, o)
    /\ proc[watch[s].pid].ok /\ object[o].m_targetItems > 0
    /\ SpawnWatched(o, [object[o] EXCEPT !.m_targetItems = @ - 1], "tar", DevRoot,
                    Reaped(s), Fired(s))
    /\ UNCHANGED <<m_locked, archive, lockFile, crashes>>

(***************************************************************************)
(* The child failed, or the next one cannot be started, or none is left.   *)
(* m_funcExtracted: onPackageExtracted parses the control file, in the     *)
(* last case, and removes the directory.                                   *)
(***************************************************************************)
ExtractEnds(o, s) ==
    /\ object[o].kind = "package" /\ Ready(s, o)
    /\ proc' = Reaped(s) /\ watch' = Fired(s)
    /\ Answered(o)
    /\ RemoveTmp
    /\ UNCHANGED <<m_locked, lockFile, crashes>>

---------------------------------------------------------------------------
(* Jailer.                                                                 *)

\* Jailer::remove
JailRemove(o) ==
    /\ Unborn(o)
    /\ SpawnWatched(o, New("jailer"), "jailer", DevRoot, proc, watch)
    /\ UNCHANGED <<m_locked, archive, lockFile, crashes>>

\* cbRemoveComplete
JailRemoved(o, s) ==
    /\ object[o].kind = "jailer" /\ Ready(s, o)
    /\ proc' = Reaped(s) /\ watch' = Fired(s)
    /\ Answered(o)
    /\ UNCHANGED <<m_locked, archive, lockFile, crashes>>

---------------------------------------------------------------------------
(* AppInstallerUtility.                                                    *)

\* restore, of each root: the lock file goes, whoever made it.
Restored(roots) == [r \in Root |-> IF r \in roots THEN NoPid ELSE lockFile[r]]

\* Mutant of RestoreUnlocked: restore comes before the test of m_locked.
RestoreAlways(roots) == lockFile' = Restored(roots)

\* LOCKED, and otherwise the lock files of the roots are removed.
RestoreUnlocked(roots) ==
    lockFile' = IF m_locked THEN lockFile ELSE Restored(roots)

(***************************************************************************)
(* What install and remove have in common: they start opkg, or end in      *)
(* LOCKED or FAIL.  Their clear finds nothing in a new object.             *)
(***************************************************************************)
Launch(o, root, roots) ==
    /\ Unborn(o)
    /\ RestoreUnlocked(roots)
    /\ \/ /\ ~m_locked /\ m_locked' = TRUE
          /\ SpawnWatched(o, [New("opkg") EXCEPT !.out = "attached"], "opkg", root, proc, watch)
       \/ UNCHANGED <<object, m_locked, proc, watch>>
    /\ UNCHANGED <<archive, crashes>>

Install(o, root) == Launch(o, root, {root})

\* remove restores both roots, the developer's only in developer mode, the only
\* mode in which its packages can be asked to be removed.
Remove(o, root, devMode) ==
    /\ root = DevRoot => devMode
    /\ Launch(o, root, IF devMode THEN Root ELSE Root \ {DevRoot})

\* cbChildProgress with a line.
ChildProgress(o) ==
    /\ object[o].out = "attached" /\ object[o].unread > 0
    /\ object' = [object EXCEPT ![o].unread = @ - 1]
    /\ UNCHANGED <<m_locked, watch, proc, archive, lockFile, crashes>>

\* Mutant of AtEnd: the watch of stdout stays, and stays ready.
KeptAtEnd == "attached"

\* cbChildProgress drops its watch at the end of the child's output.
AtEnd == "dropped"

ChildOutputEnds(o) ==
    /\ Readable(o) /\ object[o].unread = 0
    /\ object' = [object EXCEPT ![o].out = AtEnd]
    /\ UNCHANGED <<m_locked, watch, proc, archive, lockFile, crashes>>

\* Mutant of ForgetChild: the id of the source that has fired is kept.
ForgetPid(o) == object' = [object EXCEPT ![o].m_pid = NoPid, ![o].answers = @ + 1]

ForgetChild(o) == Answered(o)

\* cbChildComplete, at a priority below everything else.
ChildComplete(o, s) ==
    /\ object[o].kind = "opkg" /\ Ready(s, o) /\ ~Preempted
    /\ m_locked' = FALSE
    /\ proc' = Reaped(s) /\ watch' = Fired(s)
    /\ ForgetChild(o)
    /\ UNCHANGED <<archive, lockFile, crashes>>

---------------------------------------------------------------------------
(* The children, and the crash of their parent.                            *)

\* The parent of a child that runs on its own is init, which reaps it at once.
Exit(p, ok) ==
    proc' = [proc EXCEPT ![p] = IF @.own THEN [@ EXCEPT !.state = "exited", !.ok = ok,
                                                       !.hasLock = FALSE]
                                ELSE NoProcess]

\* Whose files the child p works on.
OwnerOf(p) ==
    IF \E o \in Wrapper : object[o].m_pid = p THEN "this" ELSE "other"

\* ar extracts control.tar.gz; of an ipk that has none it says so, and exits well.
ArExits(p, ok) ==
    /\ Running(p) /\ proc[p].program = "ar"
    /\ Exit(p, ok)
    /\ archive' \in {OwnerOf(p), archive}
    /\ UNCHANGED <<object, m_locked, watch, lockFile, crashes>>

\* tar needs an archive.
TarExits(p, ok) ==
    /\ Running(p) /\ proc[p].program = "tar"
    /\ ok => archive # "none"
    /\ Exit(p, ok)
    /\ UNCHANGED <<object, m_locked, watch, archive, lockFile, crashes>>

\* What the owner makes of the status of the jailer, or of opkg, is its own matter.
JailerExits(p) ==
    /\ Running(p) /\ proc[p].program = "jailer"
    /\ Exit(p, TRUE)
    /\ UNCHANGED <<object, m_locked, watch, archive, lockFile, crashes>>

\* opkg takes its lock; it gives up where there is one already.
OpkgLocks(p) ==
    /\ Running(p) /\ proc[p].program = "opkg" /\ ~proc[p].hasLock
    /\ lockFile[proc[p].root] = NoPid
    /\ lockFile' = [lockFile EXCEPT ![proc[p].root] = p]
    /\ proc' = [proc EXCEPT ![p].hasLock = TRUE]
    /\ UNCHANGED <<object, m_locked, watch, archive, crashes>>

OpkgWrites(o) ==
    /\ object[o].out = "attached" /\ Running(object[o].m_pid) /\ object[o].unread < MaxLines
    /\ object' = [object EXCEPT ![o].unread = @ + 1]
    /\ UNCHANGED <<m_locked, watch, proc, archive, lockFile, crashes>>

\* It takes its lock file away by name, unless it is killed.
OpkgExits(p, killed) ==
    /\ Running(p) /\ proc[p].program = "opkg"
    /\ Exit(p, TRUE)
    /\ lockFile' = IF ~proc[p].hasLock THEN lockFile
                   ELSE [lockFile EXCEPT ![proc[p].root] =
                             IF ~killed THEN NoPid ELSE IF @ = p THEN "stale" ELSE @]
    /\ UNCHANGED <<object, m_locked, watch, archive, crashes>>

(***************************************************************************)
(* The daemon dies and is started again; its children run on, and what     *)
(* they have left on the disk stays.  A jailer of a dead daemon concerns   *)
(* nothing here.                                                           *)
(***************************************************************************)
Crash ==
    /\ crashes < MaxCrashes
    /\ crashes' = crashes + 1
    /\ object' = [o \in Wrapper |-> NoObject]
    /\ m_locked' = FALSE
    /\ watch' = [s \in SourceId |-> NoWatch]
    /\ proc' = [p \in Pid |-> IF Running(p) /\ proc[p].program # "jailer"
                              THEN [proc[p] EXCEPT !.own = FALSE] ELSE NoProcess]
    /\ archive' = Disowned
    /\ UNCHANGED lockFile

---------------------------------------------------------------------------

\* What the owner of an object does.
Owner(o) ==
    \/ Destroy(o)
    \/ Extract(o)
    \/ JailRemove(o)
    \/ \E root \in Root : Install(o, root)
    \/ \E root \in Root, devMode \in BOOLEAN : Remove(o, root, devMode)

\* The child watches of the default priority.
Dispatch(s) ==
    \/ \E o \in Wrapper : UnpackNext(o, s) \/ ExtractEnds(o, s) \/ JailRemoved(o, s)
    \/ ReaperFires(s) \/ UnlockerFires(s)

DispatchIdle(s) == \E o \in Wrapper : ChildComplete(o, s)

DispatchOutput(o) == ChildProgress(o) \/ ChildOutputEnds(o)

ChildExits(p) ==
    \/ \E ok \in BOOLEAN : ArExits(p, ok) \/ TarExits(p, ok)
    \/ JailerExits(p)
    \/ \E killed \in BOOLEAN : OpkgExits(p, killed)

Next ==
    \/ ExtractFails
    \/ \E o \in Wrapper : Owner(o) \/ DispatchOutput(o) \/ OpkgWrites(o)
    \/ \E s \in SourceId : Dispatch(s) \/ DispatchIdle(s)
    \/ \E p \in Pid : OpkgLocks(p) \/ ChildExits(p)
    \/ Crash

Spec == Init /\ [][Next]_vars

(***************************************************************************)
(* A child exits some day.  The loop dispatches what is ready: the order   *)
(* among sources of one priority is that of GLib's list, which goes round, *)
(* and the exit of opkg gets its turn whenever nothing else is ready, over *)
(* and over (SF).                                                          *)
(***************************************************************************)
Fairness ==
    /\ \A p \in Pid : WF_vars(ChildExits(p))
    /\ \A o \in Wrapper : WF_vars(DispatchOutput(o))
    /\ \A s \in SourceId : WF_vars(Dispatch(s)) /\ SF_vars(DispatchIdle(s))

FairSpec == Spec /\ Fairness

---------------------------------------------------------------------------
(* Properties.                                                             *)

TypeOK ==
    /\ object \in [Wrapper -> Object \cup {NoObject}]
    /\ m_locked \in BOOLEAN
    /\ watch \in [SourceId -> Watch \cup {NoWatch}]
    /\ proc \in [Pid -> Process \cup {NoProcess}]
    /\ archive \in Whose
    /\ lockFile \in [Root -> Pid \cup {NoPid, "stale"}]
    /\ crashes \in 0 .. MaxCrashes

\* The children of the daemon, up to their being reaped.
Children == {p \in Pid : proc[p] # NoProcess /\ proc[p].own}

Watches(p) == {s \in SourceId : watch[s].pid = p}

(***************************************************************************)
(* GLib holds a bare pointer to the object a child watch calls back.       *)
(* Every child has one watch until it is reaped, none is left without, and *)
(* a watch that calls an object calls a living one, which knows that watch *)
(* and that child: across hand-overs, and although source ids and process  *)
(* ids come round again.                                                   *)
(***************************************************************************)
NoStrayWatch ==
    /\ \A p \in Children : \E s \in SourceId : Watches(p) = {s}
    /\ \A s \in SourceId : watch[s] # NoWatch =>
           /\ watch[s].pid \in Children
           /\ watch[s].target \in Wrapper =>
                  /\ object[watch[s].target].m_sourceId = s
                  /\ object[watch[s].target].m_pid = watch[s].pid

(***************************************************************************)
(* AppInstallerUtility.h: "opkg can handle only one command at once".  The *)
(* flag is set exactly while an opkg child of this daemon has not been     *)
(* reaped, even when the object that started it is gone, and there is      *)
(* never a second one.  A child left by a crash is not known here.         *)
(***************************************************************************)
OpkgChildren == {p \in Children : proc[p].program = "opkg"}

LockIsOpkg ==
    /\ m_locked <=> OpkgChildren # {}
    /\ \A p, q \in OpkgChildren : p = q

(***************************************************************************)
(* AppInstallerUtility.h: "in case of lock file is remained all of install *)
(* commands will fail".  No opkg is started in front of a lock file left   *)
(* by another, and the one a running child of the daemon holds is taken    *)
(* away by nobody but an opkg that exits.                                  *)
(***************************************************************************)
LockFilesTended ==
    [][/\ \A p \in Pid : proc[p] = NoProcess /\ proc'[p] # NoProcess /\ proc'[p].program = "opkg"
              => lockFile'[proc'[p].root] = NoPid
       /\ \A r \in Root : lockFile[r] \in OpkgChildren /\ lockFile'[r] # lockFile[r]
              => \E p \in Pid : /\ Running(p) /\ proc[p].program = "opkg" /\ proc[p].root = r
                                /\ proc'[p].state # "running"]_vars

(***************************************************************************)
(* An owner whose operation started a child is called back exactly once,   *)
(* when its last child is reaped, and not before it was told every line    *)
(* the child wrote: the status "done" is such a line.                      *)
(***************************************************************************)
ToldInFullAndOnce ==
    \A o \in {w \in Wrapper : object[w] # NoObject} :
        IF object[o].m_pid = NoPid THEN object[o].answers = 1 /\ object[o].unread = 0
        ELSE /\ object[o].answers = 0
             /\ watch[object[o].m_sourceId] = [pid |-> object[o].m_pid, target |-> o]

(***************************************************************************)
(* The package is named by the control file that tar unpacks.  It is that  *)
(* of the ipk to install, or tar fails, whatever an install of the same id *)
(* has left in the directory that a crash cut off; unless a child of that  *)
(* install still writes.                                                   *)
(***************************************************************************)
UnpacksItsOwn ==
    \A o \in Wrapper :
        /\ object[o].alone /\ object[o].m_pid # NoPid /\ object[o].m_targetItems = 0
        => archive # "other"

(***************************************************************************)
(* Once opkg has exited the lock is free again, whether the object that    *)
(* started it lives or not, and whatever else the loop has to do.          *)
(***************************************************************************)
OpkgIsReaped == m_locked ~> ~m_locked

=============================================================================
