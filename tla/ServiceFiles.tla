------------------------------- MODULE ServiceFiles -------------------------------
(***************************************************************************)
(* The luna files of one app, as ServiceInstallerUtility writes and removes*)
(* them for ServiceInstallStep and ServiceUninstallStep: roles, permissions*)
(* and services, the manifest that lists them, and the hub, which is told  *)
(* about manifests.  Verified and dev installs have a tree of their own.   *)
(*                                                                         *)
(* A callback writes one file after the other; the daemon may crash        *)
(* between any two writes or unlinks.  The daemon looks for the manifest   *)
(* under the id of the app; it writes it under the id that packageinfo.json*)
(* gives, which may be another.                                            *)
(***************************************************************************)
EXTENDS Naturals, Sequences

CONSTANTS
    App,            \* the id of the app
    Service,        \* the ids its services may have
    Packages,       \* versions of its package
    MaxFaults       \* bound: what fails, is refused or crashes in one behaviour

ASSUME PackagesAssumption ==
    /\ App \notin Service
    /\ Packages \subseteq [stub : BOOLEAN, services : Seq(Service), foreign : BOOLEAN]
    /\ MaxFaults \in Nat

Tree == {"verified", "dev"}

\* In the order in which generateFilesForService writes them.
ServiceKind == <<"role", "permission", "api", "group", "service">>
Kinds == {"role", "permission", "api", "group", "service"}

File == Kinds \X (Service \cup {App})
AppFiles == {<<"role", App>>, <<"permission", App>>}
FilesOf(s) == {<<k, s>> : k \in Kinds}
ServicesOf(p) == {p.services[n] : n \in DOMAIN p.services}

\* A package with services has its manifest named after its packageinfo.json: foreign is another id.
NamedAfterApp(p) == p.services = << >> \/ ~p.foreign

\* Mutant of Manifest: the groups are forgotten.
ManifestWithoutGroups(p) ==
    AppFiles \cup UNION {FilesOf(s) \ {<<"group", s>>} : s \in ServicesOf(p)}

\* What generateManifestFile lists, for a stub too.
Manifest(p) == AppFiles \cup UNION {FilesOf(s) : s \in ServicesOf(p)}

\* What install writes, in its order; a stub has no role and permissions of its own.
ToWrite(p) ==
    [n \in 1 .. (5 * Len(p.services)) |->
        <<ServiceKind[((n - 1) % 5) + 1], p.services[((n - 1) \div 5) + 1]>>]
    \o (IF p.stub THEN << >> ELSE << <<"role", App>>, <<"permission", App>> >>)

Written(p) == {ToWrite(p)[n] : n \in DOMAIN ToWrite(p)}

VARIABLES
    files,          \* on disk, in each tree
    manifest,       \* of the app's name: "none", "ok", or "broken" from being opened until written
    listed,         \* the files in it
    hub,            \* the files of the manifest the hub has read, {} if it has none
    installed,      \* history: {p} if the last install was of p and succeeded, {} after a remove
    at,             \* what the daemon does next
    tree, package, isUpdate, todo,      \* of install: {p}; its files still to be written
    calls, trees,   \* calls of the hub still to be made; of remove: the trees to clean
    chainOk,        \* the result of the chain of remove
    left,           \* of removeOne: the paths it has still to unlink
    kept,           \* history: the files it could not unlink
    undo,           \* an install has failed, its rollback is due
    faults

disk == <<files, manifest, listed>>
installVars == <<tree, package, isUpdate, todo>>
unlinkVars == <<left, kept>>
vars == <<disk, hub, installed, at, installVars, calls, trees, chainOk, unlinkVars, undo, faults>>

Init ==
    /\ files = [t \in Tree |-> {}]
    /\ manifest = [t \in Tree |-> "none"]
    /\ listed = [t \in Tree |-> {}]
    /\ hub = [t \in Tree |-> {}]
    /\ installed = [t \in Tree |-> {}]
    /\ at = "rest"
    /\ tree = "verified" /\ package = {} /\ isUpdate = FALSE
    /\ todo = << >> /\ calls = << >> /\ trees = << >>
    /\ chainOk = TRUE
    /\ left = {} /\ kept = {}
    /\ undo = FALSE
    /\ faults = 0

Fault == faults < MaxFaults /\ faults' = faults + 1

---------------------------------------------------------------------------
(* ServiceInstallerUtility::install                                        *)

InstallEnds ==
    /\ at' = "rest"
    /\ package' = {} /\ isUpdate' = FALSE /\ todo' = << >> /\ calls' = << >>

\* The failure is deferred to ServiceInstallStep, which ends the command.
InstallFails ==
    /\ InstallEnds /\ undo' = TRUE
    /\ UNCHANGED <<installed, tree, trees, chainOk>>

\* Whether the app is known, and this an update, is what applicationManager says.
Install(t, p) ==
    /\ at = "rest" /\ ~undo
    /\ at' = "open"
    /\ tree' = t /\ package' = {p}
    /\ isUpdate' \in BOOLEAN
    /\ installed' = [installed EXCEPT ![t] = {}]
    /\ UNCHANGED <<disk, hub, todo, calls, trees, chainOk, unlinkVars, undo, faults>>

\* Without appinfo.json, with an invalid services.json or id, or no file to write to.
NotOpened ==
    /\ at = "open"
    /\ Fault /\ InstallFails
    /\ UNCHANGED <<disk, hub, unlinkVars>>

\* An ofstream truncates the file it opens; another app's manifest is not of this model.
OpenManifest ==
    /\ at = "open"
    /\ at' = "manifest"
    /\ \E p \in package :
          IF NamedAfterApp(p)
          THEN /\ manifest' = [manifest EXCEPT ![tree] = "broken"]
               /\ listed' = [listed EXCEPT ![tree] = {}]
          ELSE UNCHANGED <<manifest, listed>>
    /\ UNCHANGED <<files, hub, installed, installVars, calls, trees, chainOk, unlinkVars, undo,
                   faults>>

\* Whether it was written is not looked at: on a full disk it stays broken.
WriteManifest ==
    /\ at = "manifest"
    /\ at' = "files"
    /\ \E p \in package :
        /\ todo' = ToWrite(p)
        /\ \/ /\ NamedAfterApp(p)
              /\ manifest' = [manifest EXCEPT ![tree] = "ok"]
              /\ listed' = [listed EXCEPT ![tree] = Manifest(p)]
              /\ UNCHANGED faults
           \/ ~NamedAfterApp(p) /\ UNCHANGED <<manifest, listed, faults>>
           \/ Fault /\ UNCHANGED <<manifest, listed>>
    /\ UNCHANGED <<files, hub, installed, tree, package, isUpdate, calls, trees, chainOk, unlinkVars,
                   undo>>

WriteFile ==
    /\ at = "files" /\ todo # << >>
    /\ files' = [files EXCEPT ![tree] = @ \cup {Head(todo)}]
    /\ todo' = Tail(todo)
    /\ UNCHANGED <<manifest, listed, hub, installed, at, tree, package, isUpdate, calls, trees,
                   chainOk, unlinkVars, undo, faults>>

\* Mutant of NotWritten: the result is not looked at.
NotWrittenIgnored ==
    /\ todo' = Tail(todo)
    /\ UNCHANGED <<disk, hub, installed, at, tree, package, isUpdate, calls, trees, chainOk,
                   unlinkVars, undo>>

\* A wrong name or id of a service, or a file that cannot be written; an old role is removed first.
NotWritten ==
    /\ \/ files' = [files EXCEPT ![tree] = @ \ {f \in {Head(todo)} : f[1] = "role"}]
       \/ UNCHANGED files
    /\ InstallFails
    /\ UNCHANGED <<manifest, listed, hub, unlinkVars>>

WriteFails ==
    /\ at = "files" /\ todo # << >>
    /\ Fault /\ NotWritten

HubCall == [verb : {"add", "remove"}, tree : Tree]
Call(verb, t) == [verb |-> verb, tree |-> t]

\* Tell the hub; an update replaces the manifest it has.
TellHub ==
    /\ at = "files" /\ todo = << >>
    /\ at' = "hub"
    /\ calls' = IF isUpdate THEN <<Call("remove", tree), Call("add", tree)>>
                ELSE <<Call("add", tree)>>
    /\ UNCHANGED <<disk, hub, installed, installVars, trees, chainOk, unlinkVars, undo, faults>>

---------------------------------------------------------------------------
(* ServiceInstallerUtility::remove, for a client or as a rollback.         *)

\* A verified remove cleans both trees.
TreesOf(v) == IF v = "verified" THEN <<"verified", "dev">> ELSE <<"dev">>

\* Mutant of RemoveCalls: the hub is told about one tree.
RemoveCallsFirst(v) == <<Call("remove", v)>>

RemoveCalls(v) == [n \in DOMAIN TreesOf(v) |-> Call("remove", TreesOf(v)[n])]

Remove(v) ==
    /\ at = "rest" /\ (undo => v = tree)
    /\ trees' = TreesOf(v)
    /\ calls' = RemoveCalls(v)
    /\ at' = "hub"
    /\ chainOk' = TRUE
    /\ undo' = FALSE
    /\ installed' = [t \in Tree |-> IF \E n \in DOMAIN TreesOf(v) : TreesOf(v)[n] = t THEN {}
                                  ELSE installed[t]]
    /\ UNCHANGED <<disk, hub, installVars, faults, unlinkVars>>

\* The rollback fails before it comes to the service files.
RollbackFails ==
    /\ at = "rest" /\ undo
    /\ Fault /\ undo' = FALSE
    /\ UNCHANGED <<disk, hub, installed, at, installVars, calls, trees, chainOk, unlinkVars>>

\* Manifest::load reads its keys in this order.
Rank(f) == CASE f[1] = "role" -> 1 [] f[1] = "service" -> 2 [] f[1] = "permission" -> 3
             [] f[1] = "api" -> 4 [] f[1] = "group" -> 5

\* removeOne, with a manifest that can be read.
ReadManifest ==
    /\ at = "removing"
    /\ manifest[Head(trees)] = "ok"
    /\ at' = "unlinking"
    /\ left' = listed[Head(trees)] /\ kept' = {}
    /\ UNCHANGED <<disk, hub, installed, installVars, calls, trees, chainOk, undo, faults>>

\* Whether a file was unlinked is not looked at.
RemoveFile ==
    /\ at = "unlinking"
    /\ \E f \in left :
          /\ \A g \in left : Rank(f) <= Rank(g)
          /\ left' = left \ {f}
          /\ \/ files' = [files EXCEPT ![Head(trees)] = @ \ {f}] /\ UNCHANGED <<kept, faults>>
             \/ Fault /\ kept' = kept \cup {f} /\ UNCHANGED files
    /\ UNCHANGED <<manifest, listed, hub, installed, at, installVars, calls, trees, chainOk, undo>>

NextTree ==
    /\ trees' = Tail(trees)
    /\ at' = IF Tail(trees) = << >> THEN "rest" ELSE "removing"
    /\ left' = {} /\ kept' = {}

\* The manifest goes last, whatever is left of its files; it may stay, too.
RemoveManifest ==
    /\ at = "unlinking" /\ left = {}
    /\ \/ /\ manifest' = [manifest EXCEPT ![Head(trees)] = "none"]
          /\ listed' = [listed EXCEPT ![Head(trees)] = {}]
          /\ UNCHANGED faults
       \/ Fault /\ UNCHANGED <<manifest, listed>>
    /\ NextTree
    /\ UNCHANGED <<files, hub, installed, installVars, calls, chainOk, undo>>

\* Without a manifest, or with a broken one, nothing is removed.
NoManifest ==
    /\ at = "removing"
    /\ manifest[Head(trees)] # "ok"
    /\ NextTree
    /\ UNCHANGED <<disk, hub, installed, installVars, calls, chainOk, undo, faults>>

---------------------------------------------------------------------------
(* The hub and its answers.                                                *)

\* onUpdateManifest or onRemoveManifest: the latter goes on whatever the hub has said.
ChainEnds(ok) ==
    IF trees # << >>
    THEN /\ at' = "removing" /\ chainOk' = ok /\ calls' = << >>
         /\ UNCHANGED <<installed, installVars, trees, undo>>
    ELSE IF ok
    THEN /\ InstallEnds /\ installed' = [installed EXCEPT ![tree] = package]
         /\ UNCHANGED <<tree, trees, chainOk, undo>>
    ELSE InstallFails

\* There is nothing the hub could remove or add.
Pointless(c) == IF c.verb = "add" THEN manifest[c.tree] # "ok" ELSE hub[c.tree] = {}

\* The hub reads a manifest that is added, and needs one it can read.
HubAgrees ==
    /\ at = "hub"
    /\ Head(calls).verb = "add" => ~Pointless(Head(calls))
    /\ hub' = [hub EXCEPT ![Head(calls).tree] =
                  IF Head(calls).verb = "add" THEN listed[Head(calls).tree] ELSE {}]
    /\ IF Tail(calls) = << >> THEN ChainEnds(TRUE)
       ELSE /\ calls' = Tail(calls)
            /\ UNCHANGED <<installed, at, installVars, trees, chainOk, undo>>
    /\ UNCHANGED <<disk, faults, unlinkVars>>

\* A negative answer, or a call that cannot be sent: the calls that are left are not made.
HubRefuses ==
    /\ at = "hub"
    /\ IF Pointless(Head(calls)) THEN UNCHANGED faults ELSE Fault
    /\ ChainEnds(FALSE)
    /\ UNCHANGED <<disk, hub, unlinkVars>>

\* The daemon restarts; the hub and the disk are as they were.
Crash ==
    /\ at # "rest" \/ undo
    /\ Fault
    /\ InstallEnds /\ undo' = FALSE /\ trees' = << >>
    /\ left' = {} /\ kept' = {}
    /\ UNCHANGED <<disk, hub, installed, tree, chainOk>>

Next ==
    \/ \E t \in Tree, p \in Packages : Install(t, p)
    \/ \E t \in Tree : Remove(t)
    \/ NotOpened \/ OpenManifest \/ WriteManifest \/ WriteFile \/ WriteFails \/ TellHub
    \/ RollbackFails \/ ReadManifest \/ RemoveFile \/ RemoveManifest \/ NoManifest
    \/ HubAgrees \/ HubRefuses \/ Crash

Spec == Init /\ [][Next]_vars

---------------------------------------------------------------------------
(* Properties.                                                             *)

TypeOK ==
    /\ files \in [Tree -> SUBSET File] /\ listed \in [Tree -> SUBSET File]
    /\ manifest \in [Tree -> {"none", "broken", "ok"}]
    /\ hub \in [Tree -> SUBSET File]
    /\ installed \in [Tree -> SUBSET Packages]
    /\ at \in {"rest", "open", "manifest", "files", "hub", "removing", "unlinking"}
    /\ tree \in Tree /\ package \subseteq Packages /\ isUpdate \in BOOLEAN
    /\ todo \in Seq(File)
    /\ calls \in Seq(HubCall)
    /\ trees \in Seq(Tree)
    /\ chainOk \in BOOLEAN /\ undo \in BOOLEAN
    /\ left \subseteq File /\ kept \subseteq File
    /\ faults \in 0 .. MaxFaults

(***************************************************************************)
(* After a successful install, of a first version or an update, all files  *)
(* of the version are there, and the hub has read the app's manifest as it *)
(* stands, whatever was left by earlier failures and crashes.  It lists    *)
(* the files of this version, unless packageinfo.json names another id.    *)
(***************************************************************************)
InstalledIsComplete ==
    \A t \in Tree : \A p \in installed[t] :
        /\ Written(p) \subseteq files[t]
        /\ manifest[t] = "ok" /\ hub[t] = listed[t]
        /\ NamedAfterApp(p) => listed[t] = Manifest(p)

(***************************************************************************)
(* A rollback or a remove finds files only through the manifest.  A file   *)
(* gets on disk without being listed, or loses its entry, in three ways    *)
(* only: the manifest is opened to be rewritten, for an update without     *)
(* that service or cut short; the file could not be unlinked by the remove *)
(* that drops the manifest all the same; or it is written for a package    *)
(* whose manifest has another name.  No other failure and no crash leaves  *)
(* such a file.                                                            *)
(***************************************************************************)
Forgotten(t) == files[t] \ listed[t]

NoFileForgotten ==
    [][\A t \in Tree : \A f \in Forgotten(t)' \ Forgotten(t) :
          \/ manifest'[t] = "broken"
          \/ at = "unlinking" /\ f \in kept
          \/ at = "files" /\ \E p \in package : ~NamedAfterApp(p)]_vars

(***************************************************************************)
(* The files of a manifest disappear only after the hub has dropped it, or *)
(* has refused this or an earlier call of the same remove.                 *)
(***************************************************************************)
HubToldFirst ==
    [][\A t \in Tree :
          manifest[t] = "ok" /\ manifest'[t] = "none" => hub[t] = {} \/ ~chainOk]_vars

=============================================================================
