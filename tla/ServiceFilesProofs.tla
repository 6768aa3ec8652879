---------------------------- MODULE ServiceFilesProofs ----------------------------
(***************************************************************************)
(* Proofs about ServiceFiles, for any packages and any number of faults.   *)
(***************************************************************************)
EXTENDS ServiceFiles, TLAPS

Elements(seq) == {seq[n] : n \in DOMAIN seq}

---------------------------------------------------------------------------
(* The inductive invariant.                                                *)

\* The hub is called for an install, or for a remove, which has trees to clean.
AddsToHub == at = "hub" /\ trees = << >>
DropsFromHub == at = "hub" /\ trees # << >>

\* What is at work, and that nothing counts as installed where it works.
OneAtWork ==
    /\ at \in {"rest", "open", "manifest", "files"} => trees = << >>
    /\ at \in {"removing", "unlinking"} => trees # << >>
    /\ at \in {"open", "manifest", "files"} \/ AddsToHub =>
           installed[tree] = {} /\ \E p \in Packages : package = {p}
    /\ \A t \in Elements(trees) : installed[t] = {}

\* The manifest of an install is opened, and then says everything or nothing.
ManifestFirst ==
    /\ at = "manifest" => \A p \in package : NamedAfterApp(p) =>
           manifest[tree] = "broken" /\ listed[tree] = {}
    /\ at = "files" \/ AddsToHub => \A p \in package : NamedAfterApp(p) =>
           /\ manifest[tree] \in {"broken", "ok"}
           /\ manifest[tree] = "ok" => listed[tree] = Manifest(p)

\* A file of an install is written or still to be written.
WrittenOrTodo ==
    /\ at = "files" => \A p \in package :
           /\ Written(p) \subseteq files[tree] \cup Elements(todo)
           /\ Elements(todo) \subseteq Written(p)
    /\ AddsToHub => \A p \in package : Written(p) \subseteq files[tree]

\* The calls of an install end with an add; those of a remove are owed to the trees not dropped yet.
CallsOwed ==
    /\ AddsToHub => calls \in {<<Call("add", tree)>>, <<Call("remove", tree), Call("add", tree)>>}
    /\ DropsFromHub =>
           /\ calls # << >> /\ chainOk
           /\ \A c \in Elements(calls) : c.verb = "remove" /\ c.tree \in Elements(trees)
           /\ \A t \in Elements(trees) : hub[t] = {} \/ \E c \in Elements(calls) : c.tree = t

\* Nobody but a refusal lets files be removed that the hub still has.
DroppedOrRefused ==
    at \in {"removing", "unlinking"} /\ chainOk => \A t \in Elements(trees) : hub[t] = {}

\* A listed file of the tree at work is gone, still to be unlinked, or was kept.
UnlinkedOrKept ==
    at = "unlinking" =>
        files[Head(trees)] \cap listed[Head(trees)] \subseteq left \cup kept

IInv ==
    /\ TypeOK /\ InstalledIsComplete
    /\ OneAtWork /\ ManifestFirst /\ WrittenOrTodo /\ CallsOwed
    /\ DroppedOrRefused /\ UnlinkedOrKept

---------------------------------------------------------------------------
(* Lemmas about sequences and the operators of ServiceFiles.               *)

\* A sequence has its head and what its tail has.
LEMMA HeadAndTail ==
    ASSUME NEW S, NEW seq \in Seq(S), seq # << >>
    PROVE  /\ Head(seq) \in S /\ Tail(seq) \in Seq(S)
           /\ Head(seq) \in Elements(seq)
           /\ Elements(seq) = {Head(seq)} \cup Elements(Tail(seq))
<1>1. Len(seq) \in Nat \ {0} /\ DOMAIN seq = 1 .. Len(seq)
  OBVIOUS
<1>2. /\ Tail(seq) \in Seq(S) /\ Len(Tail(seq)) = Len(seq) - 1
      /\ DOMAIN Tail(seq) = 1 .. (Len(seq) - 1)
  BY <1>1
<1>3. \A n \in DOMAIN Tail(seq) : Tail(seq)[n] = seq[n + 1]
  BY <1>1, <1>2
<1>4. Head(seq) = seq[1] /\ Head(seq) \in S /\ 1 \in DOMAIN seq
  BY <1>1
<1>5. \A n \in DOMAIN seq : n = 1 \/ (n - 1 \in DOMAIN Tail(seq) /\ Tail(seq)[n - 1] = seq[n])
  BY <1>1, <1>2, <1>3
<1>6. \A n \in DOMAIN Tail(seq) : n + 1 \in DOMAIN seq
  BY <1>1, <1>2
<1> HIDE <1>1
<1>7. Elements(seq) \subseteq {Head(seq)} \cup Elements(Tail(seq))
  BY <1>4, <1>5 DEF Elements
<1>8. {Head(seq)} \cup Elements(Tail(seq)) \subseteq Elements(seq)
  BY <1>3, <1>4, <1>6 DEF Elements
<1> QED BY <1>2, <1>4, <1>7, <1>8 DEF Elements

\* The elements of short sequences.
LEMMA ElementsOfFew ==
    /\ Elements(<< >>) = {}
    /\ \A a : Elements(<<a>>) = {a}
    /\ \A a, b : Elements(<<a, b>>) = {a, b}
BY DEF Elements

\* Taking them apart.
LEMMA HeadsOfFew ==
    \A a, b : /\ Head(<<a>>) = a /\ Tail(<<a>>) = << >>
              /\ Head(<<a, b>>) = a /\ Tail(<<a, b>>) = <<b>> /\ <<b>> # << >>
OBVIOUS

\* What an install writes are files, and its manifest lists them all.
LEMMA WrittenIsListed ==
    ASSUME NEW p \in Packages
    PROVE  /\ ToWrite(p) \in Seq(File)
           /\ Written(p) = Elements(ToWrite(p))
           /\ Written(p) \subseteq Manifest(p)
           /\ Manifest(p) \subseteq File
<1> DEFINE len == Len(p.services)
           ofServices == [n \in 1 .. (5 * len) |->
                            <<ServiceKind[((n - 1) % 5) + 1], p.services[((n - 1) \div 5) + 1]>>]
           ofApp == IF p.stub THEN << >> ELSE << <<"role", App>>, <<"permission", App>> >>
<1>1. p.services \in Seq(Service) /\ len \in Nat
  BY PackagesAssumption
<1>2. \A n \in 1 .. (5 * len) : ((n - 1) % 5) + 1 \in 1 .. 5 /\ ((n - 1) \div 5) + 1 \in 1 .. len
  BY <1>1
<1>3. \A k \in 1 .. 5 : ServiceKind[k] \in Kinds
  BY DEF ServiceKind, Kinds
<1>4. \A s \in ServicesOf(p) : FilesOf(s) \subseteq Manifest(p)
  BY DEF Manifest
<1>5. \A k \in 1 .. len : p.services[k] \in ServicesOf(p) /\ p.services[k] \in Service
  BY <1>1 DEF ServicesOf
<1>6. Manifest(p) \subseteq File
  BY <1>1 DEF Manifest, AppFiles, FilesOf, ServicesOf, File, Kinds
<1>7. \A n \in 1 .. (5 * len) : ofServices[n] \in Manifest(p)
  BY <1>2, <1>3, <1>4, <1>5 DEF FilesOf
<1>8. ofServices \in Seq(Manifest(p))
  <2> DEFINE m == 5 * len
  <2>1. m \in Nat
    BY <1>1
  <2>2. ofServices \in [1 .. m -> Manifest(p)]
    BY <1>7
  <2> HIDE DEF m, ofServices
  <2> QED BY <2>1, <2>2
<1>9. ofApp \in Seq(Manifest(p))
  <2>1. <<"role", App>> \in Manifest(p) /\ <<"permission", App>> \in Manifest(p)
    BY DEF Manifest, AppFiles
  <2> DEFINE role == <<"role", App>>
             permission == <<"permission", App>>
  <2>2. role \in Manifest(p) /\ permission \in Manifest(p)
    BY <2>1
  <2> HIDE DEF role, permission
  <2>3. <<role, permission>> \in Seq(Manifest(p))
    BY <2>2
  <2> QED BY <2>3 DEF role, permission
<1>10. ToWrite(p) = ofServices \o ofApp
  BY DEF ToWrite
<1> HIDE DEF ofServices, ofApp
<1>11. ToWrite(p) \in Seq(Manifest(p))
  BY <1>8, <1>9, <1>10
<1>12. Written(p) \subseteq Manifest(p)
  BY <1>11 DEF Written
<1>13. ToWrite(p) \in Seq(File)
  BY <1>6, <1>11
<1> QED BY <1>6, <1>12, <1>13 DEF Written, Elements

\* A remove asks the hub to drop just the trees it cleans.
LEMMA CallsOfRemove ==
    ASSUME NEW v \in Tree
    PROVE  /\ TreesOf(v) \in Seq(Tree) /\ TreesOf(v) # << >>
           /\ RemoveCalls(v) \in Seq(HubCall) /\ RemoveCalls(v) # << >>
           /\ \A c \in Elements(RemoveCalls(v)) :
                  c.verb = "remove" /\ c.tree \in Elements(TreesOf(v))
           /\ \A t \in Elements(TreesOf(v)) : \E c \in Elements(RemoveCalls(v)) : c.tree = t
<1>1. TreesOf(v) \in Seq(Tree) /\ Len(TreesOf(v)) \in {1, 2} /\ TreesOf(v) # << >>
  <2>1. "verified" \in Tree /\ "dev" \in Tree
    BY DEF Tree
  <2>2. <<"verified", "dev">> \in Seq(Tree) /\ <<"dev">> \in Seq(Tree)
    BY <2>1
  <2> QED BY <2>2 DEF TreesOf
<1>2. RemoveCalls(v) = [n \in 1 .. Len(TreesOf(v)) |-> Call("remove", TreesOf(v)[n])]
  BY <1>1 DEF RemoveCalls
<1>3. \A n \in 1 .. Len(TreesOf(v)) :
          RemoveCalls(v)[n] = Call("remove", TreesOf(v)[n]) /\ TreesOf(v)[n] \in Tree
  BY <1>1, <1>2
<1>4. \A t \in Tree : /\ Call("remove", t) \in HubCall
                      /\ Call("remove", t).verb = "remove" /\ Call("remove", t).tree = t
  BY DEF Call, HubCall
<1>5. RemoveCalls(v) \in Seq(HubCall) /\ RemoveCalls(v) # << >>
  BY <1>1, <1>2, <1>3, <1>4
<1>6. \A c \in Elements(RemoveCalls(v)) : c.verb = "remove" /\ c.tree \in Elements(TreesOf(v))
  BY <1>1, <1>2, <1>3, <1>4 DEF Elements
<1>7. \A t \in Elements(TreesOf(v)) : \E c \in Elements(RemoveCalls(v)) : c.tree = t
  BY <1>1, <1>2, <1>3, <1>4 DEF Elements
<1> QED BY <1>1, <1>5, <1>6, <1>7

---------------------------------------------------------------------------
(* IInv is inductive.                                                      *)

\* The calls of an install.
LEMMA CallsOfInstall ==
    ASSUME NEW t \in Tree
    PROVE  /\ <<Call("add", t)>> \in Seq(HubCall)
           /\ <<Call("remove", t), Call("add", t)>> \in Seq(HubCall)
           /\ \A verb \in {"add", "remove"} : Call(verb, t).verb = verb /\ Call(verb, t).tree = t
<1>1. Call("add", t) \in HubCall /\ Call("remove", t) \in HubCall
  BY DEF Call, HubCall
<1>2. \A verb \in {"add", "remove"} : Call(verb, t).verb = verb /\ Call(verb, t).tree = t
  BY DEF Call
<1> DEFINE add == Call("add", t)
           remove == Call("remove", t)
<1>3. add \in HubCall /\ remove \in HubCall
  BY <1>1
<1> HIDE DEF add, remove
<1>4. <<add>> \in Seq(HubCall) /\ <<remove, add>> \in Seq(HubCall)
  BY <1>3
<1> QED BY <1>2, <1>4 DEF add, remove

\* The count of faults stays in its bound.
LEMMA FaultCounted == TypeOK /\ Fault => faults' \in 0 .. MaxFaults
BY PackagesAssumption DEF TypeOK, Fault

\* Nothing is installed, listed or under way at the start.
LEMMA InitIInv == Init => IInv
<1> SUFFICES ASSUME Init PROVE IInv
  OBVIOUS
<1>1. TypeOK
  <2>1. /\ files \in [Tree -> SUBSET File] /\ listed \in [Tree -> SUBSET File]
        /\ manifest \in [Tree -> {"none", "broken", "ok"}]
        /\ hub \in [Tree -> SUBSET File] /\ installed \in [Tree -> SUBSET Packages]
    BY DEF Init
  <2>2. /\ at \in {"rest", "open", "manifest", "files", "hub", "removing", "unlinking"}
        /\ tree \in Tree /\ package \subseteq Packages /\ isUpdate \in BOOLEAN
        /\ chainOk \in BOOLEAN /\ undo \in BOOLEAN
    BY DEF Init, Tree
  <2>3. todo \in Seq(File) /\ calls \in Seq(HubCall) /\ trees \in Seq(Tree)
    BY DEF Init
  <2>4. faults \in 0 .. MaxFaults
    BY PackagesAssumption DEF Init
  <2>5. left \subseteq File /\ kept \subseteq File
    BY DEF Init
  <2> QED BY <2>1, <2>2, <2>3, <2>4, <2>5 DEF TypeOK
<1>2. InstalledIsComplete
  BY DEF Init, InstalledIsComplete
<1>3. /\ OneAtWork /\ ManifestFirst /\ WrittenOrTodo /\ CallsOwed
      /\ DroppedOrRefused /\ UnlinkedOrKept
  BY ElementsOfFew
     DEF Init, OneAtWork, ManifestFirst, WrittenOrTodo, CallsOwed, DroppedOrRefused,
         UnlinkedOrKept, AddsToHub, DropsFromHub
<1> QED BY <1>1, <1>2, <1>3 DEF IInv

\* An install starts at rest, and from then on its tree counts as not installed.
LEMMA InstallKeepsIInv ==
    ASSUME NEW t \in Tree, NEW p \in Packages
    PROVE  IInv /\ Install(t, p) => IInv'
<1> SUFFICES ASSUME IInv, Install(t, p) PROVE IInv'
  OBVIOUS
<1>1. TypeOK'
  BY DEF Install, disk, IInv, TypeOK, unlinkVars
<1>2. InstalledIsComplete'
  BY DEF Install, disk, IInv, InstalledIsComplete
<1>3. OneAtWork'
  BY DEF Install, IInv, TypeOK, OneAtWork
<1>4. ManifestFirst'
  BY DEF Install, IInv, ManifestFirst, AddsToHub
<1>5. WrittenOrTodo'
  BY DEF Install, IInv, WrittenOrTodo, AddsToHub
<1>6. CallsOwed'
  BY DEF Install, IInv, CallsOwed, AddsToHub, DropsFromHub
<1>7. DroppedOrRefused'
  BY DEF Install, IInv, DroppedOrRefused
<1>8. UnlinkedOrKept'
  BY DEF Install, IInv, UnlinkedOrKept
<1> QED BY <1>1, <1>2, <1>3, <1>4, <1>5, <1>6, <1>7, <1>8 DEF IInv

\* An install that fails before the manifest leaves the disk alone.
LEMMA NotOpenedKeepsIInv == IInv /\ NotOpened => IInv'
<1> SUFFICES ASSUME IInv, NotOpened PROVE IInv'
  OBVIOUS
<1>1. TypeOK'
  <2>1. /\ files' \in [Tree -> SUBSET File] /\ listed' \in [Tree -> SUBSET File]
        /\ manifest' \in [Tree -> {"none", "broken", "ok"}]
        /\ hub' \in [Tree -> SUBSET File] /\ installed' \in [Tree -> SUBSET Packages]
    BY DEF NotOpened, disk, InstallFails, IInv, TypeOK
  <2>2. /\ at' \in {"rest", "open", "manifest", "files", "hub", "removing", "unlinking"}
        /\ tree' \in Tree /\ package' \subseteq Packages /\ isUpdate' \in BOOLEAN
        /\ chainOk' \in BOOLEAN /\ undo' \in BOOLEAN
    BY DEF NotOpened, InstallFails, InstallEnds, IInv, TypeOK
  <2>3. todo' \in Seq(File) /\ calls' \in Seq(HubCall) /\ trees' \in Seq(Tree)
    BY DEF NotOpened, InstallFails, InstallEnds, IInv, TypeOK
  <2>4. faults' \in 0 .. MaxFaults
    BY FaultCounted DEF NotOpened, IInv
  <2>5. left' \subseteq File /\ kept' \subseteq File
    BY DEF NotOpened, InstallFails, InstallEnds, IInv, TypeOK, unlinkVars
  <2> QED BY <2>1, <2>2, <2>3, <2>4, <2>5 DEF TypeOK
<1>2. InstalledIsComplete'
  BY DEF NotOpened, disk, InstallFails, IInv, InstalledIsComplete
<1>3. OneAtWork'
  BY DEF NotOpened, InstallFails, InstallEnds, IInv, OneAtWork, AddsToHub
<1>4. ManifestFirst'
  BY DEF NotOpened, InstallFails, InstallEnds, IInv, ManifestFirst, AddsToHub
<1>5. WrittenOrTodo'
  BY DEF NotOpened, InstallFails, InstallEnds, IInv, WrittenOrTodo
<1>6. CallsOwed'
  BY DEF NotOpened, InstallFails, InstallEnds, IInv, CallsOwed, AddsToHub, DropsFromHub
<1>7. DroppedOrRefused'
  BY DEF NotOpened, InstallFails, InstallEnds, IInv, DroppedOrRefused
<1>8. UnlinkedOrKept'
  BY DEF NotOpened, InstallFails, InstallEnds, IInv, UnlinkedOrKept
<1> QED BY <1>1, <1>2, <1>3, <1>4, <1>5, <1>6, <1>7, <1>8 DEF IInv

\* Opening the manifest forgets what it has listed; the tree does not count as installed.
LEMMA OpenManifestKeepsIInv == IInv /\ OpenManifest => IInv'
<1> SUFFICES ASSUME IInv, OpenManifest PROVE IInv'
  OBVIOUS
<1>a. /\ at = "open" /\ at' = "manifest"
      /\ UNCHANGED <<files, hub, installed, tree, package, isUpdate, todo, calls, trees, chainOk,
                     left, kept, undo, faults>>
  BY DEF OpenManifest, installVars, unlinkVars
<1>b. PICK p \in Packages : package = {p}
  BY <1>a DEF IInv, OneAtWork
<1>c. /\ NamedAfterApp(p) => /\ manifest' = [manifest EXCEPT ![tree] = "broken"]
                             /\ listed' = [listed EXCEPT ![tree] = {}]
      /\ ~NamedAfterApp(p) => UNCHANGED <<manifest, listed>>
  BY <1>b DEF OpenManifest
<1>1. TypeOK'
  <2>1. listed' \in [Tree -> SUBSET File] /\ manifest' \in [Tree -> {"none", "broken", "ok"}]
    BY <1>c DEF IInv, TypeOK
  <2> QED BY <1>a, <2>1 DEF IInv, TypeOK
<1>2. InstalledIsComplete'
  <2>1. installed[tree] = {}
    BY <1>a DEF IInv, OneAtWork
  <2>2. \A t \in Tree \ {tree} : manifest'[t] = manifest[t] /\ listed'[t] = listed[t]
    BY <1>c DEF IInv, TypeOK
  <2> QED BY <1>a, <2>1, <2>2 DEF IInv, InstalledIsComplete
<1>3. OneAtWork'
  BY DEF OpenManifest, installVars, IInv, OneAtWork
<1>4. ManifestFirst'
  BY <1>a, <1>b, <1>c DEF IInv, TypeOK, ManifestFirst, AddsToHub
<1>5. WrittenOrTodo'
  BY DEF OpenManifest, IInv, WrittenOrTodo, AddsToHub
<1>6. CallsOwed'
  BY DEF OpenManifest, IInv, CallsOwed, AddsToHub, DropsFromHub
<1>7. DroppedOrRefused'
  BY DEF OpenManifest, IInv, DroppedOrRefused
<1>8. UnlinkedOrKept'
  BY DEF OpenManifest, IInv, UnlinkedOrKept
<1> QED BY <1>1, <1>2, <1>3, <1>4, <1>5, <1>6, <1>7, <1>8 DEF IInv

\* The manifest is written before the files: all of them are still to be written.
LEMMA WriteManifestKeepsIInv == IInv /\ WriteManifest => IInv'
<1> SUFFICES ASSUME IInv, WriteManifest PROVE IInv'
  OBVIOUS
<1>1. TypeOK'
  <2>1. /\ files' \in [Tree -> SUBSET File] /\ listed' \in [Tree -> SUBSET File]
        /\ manifest' \in [Tree -> {"none", "broken", "ok"}]
        /\ hub' \in [Tree -> SUBSET File] /\ installed' \in [Tree -> SUBSET Packages]
    <3>1. PICK p \in Packages :
              listed' = listed \/ listed' = [listed EXCEPT ![tree] = Manifest(p)]
      BY DEF WriteManifest, IInv, TypeOK
    <3>2. Manifest(p) \subseteq File
      BY WrittenIsListed
    <3> QED BY <3>1, <3>2 DEF WriteManifest, IInv, TypeOK
  <2>2. /\ at' \in {"rest", "open", "manifest", "files", "hub", "removing", "unlinking"}
        /\ tree' \in Tree /\ package' \subseteq Packages /\ isUpdate' \in BOOLEAN
        /\ chainOk' \in BOOLEAN /\ undo' \in BOOLEAN
    BY DEF WriteManifest, IInv, TypeOK
  <2>3. todo' \in Seq(File) /\ calls' \in Seq(HubCall) /\ trees' \in Seq(Tree)
    BY WrittenIsListed DEF WriteManifest, IInv, TypeOK
  <2>4. faults' \in 0 .. MaxFaults
    BY FaultCounted DEF WriteManifest, IInv, TypeOK
  <2>5. left' \subseteq File /\ kept' \subseteq File
    BY DEF WriteManifest, IInv, TypeOK, unlinkVars
  <2> QED BY <2>1, <2>2, <2>3, <2>4, <2>5 DEF TypeOK
<1>2. InstalledIsComplete'
  BY DEF WriteManifest, IInv, TypeOK, InstalledIsComplete, OneAtWork
<1>3. OneAtWork'
  BY DEF WriteManifest, IInv, OneAtWork
<1>4. ManifestFirst'
  BY DEF WriteManifest, IInv, TypeOK, ManifestFirst, OneAtWork
<1>5. WrittenOrTodo'
  BY WrittenIsListed DEF WriteManifest, IInv, WrittenOrTodo, OneAtWork, AddsToHub
<1>6. CallsOwed'
  BY DEF WriteManifest, IInv, CallsOwed, AddsToHub, DropsFromHub
<1>7. DroppedOrRefused'
  BY DEF WriteManifest, IInv, DroppedOrRefused
<1>8. UnlinkedOrKept'
  BY DEF WriteManifest, IInv, UnlinkedOrKept
<1> QED BY <1>1, <1>2, <1>3, <1>4, <1>5, <1>6, <1>7, <1>8 DEF IInv

\* The next file goes from the list to the disk.
LEMMA WriteFileKeepsIInv == IInv /\ WriteFile => IInv'
<1> SUFFICES ASSUME IInv, WriteFile PROVE IInv'
  OBVIOUS
<1>1. TypeOK'
  BY DEF WriteFile, IInv, TypeOK, unlinkVars
<1>2. InstalledIsComplete'
  BY DEF WriteFile, IInv, InstalledIsComplete
<1>3. OneAtWork'
  BY DEF WriteFile, IInv, OneAtWork
<1>4. ManifestFirst'
  BY DEF WriteFile, IInv, ManifestFirst
<1>5. WrittenOrTodo'
  BY HeadAndTail DEF WriteFile, IInv, TypeOK, WrittenOrTodo, AddsToHub
<1>6. CallsOwed'
  BY DEF WriteFile, IInv, CallsOwed, AddsToHub, DropsFromHub
<1>7. DroppedOrRefused'
  BY DEF WriteFile, IInv, DroppedOrRefused
<1>8. UnlinkedOrKept'
  BY DEF WriteFile, IInv, UnlinkedOrKept
<1> QED BY <1>1, <1>2, <1>3, <1>4, <1>5, <1>6, <1>7, <1>8 DEF IInv

\* A file that cannot be written ends the install.
LEMMA WriteFailsKeepsIInv == IInv /\ WriteFails => IInv'
<1> SUFFICES ASSUME IInv, WriteFails PROVE IInv'
  OBVIOUS
<1>1. TypeOK'
  <2>1. /\ files' \in [Tree -> SUBSET File] /\ listed' \in [Tree -> SUBSET File]
        /\ manifest' \in [Tree -> {"none", "broken", "ok"}]
        /\ hub' \in [Tree -> SUBSET File] /\ installed' \in [Tree -> SUBSET Packages]
    BY DEF WriteFails, NotWritten, InstallFails, IInv, TypeOK
  <2>2. /\ at' \in {"rest", "open", "manifest", "files", "hub", "removing", "unlinking"}
        /\ tree' \in Tree /\ package' \subseteq Packages /\ isUpdate' \in BOOLEAN
        /\ chainOk' \in BOOLEAN /\ undo' \in BOOLEAN
    BY DEF WriteFails, NotWritten, InstallFails, InstallEnds, IInv, TypeOK
  <2>3. todo' \in Seq(File) /\ calls' \in Seq(HubCall) /\ trees' \in Seq(Tree)
    BY DEF WriteFails, NotWritten, InstallFails, InstallEnds, IInv, TypeOK
  <2>4. faults' \in 0 .. MaxFaults
    BY FaultCounted DEF WriteFails, NotWritten, IInv
  <2>5. left' \subseteq File /\ kept' \subseteq File
    BY DEF WriteFails, NotWritten, InstallFails, InstallEnds, IInv, TypeOK, unlinkVars
  <2> QED BY <2>1, <2>2, <2>3, <2>4, <2>5 DEF TypeOK
<1>2. InstalledIsComplete'
  BY DEF WriteFails, NotWritten, InstallFails, IInv, TypeOK, InstalledIsComplete, OneAtWork
<1>3. OneAtWork'
  BY DEF WriteFails, NotWritten, InstallFails, InstallEnds, IInv, OneAtWork, AddsToHub
<1>4. ManifestFirst'
  BY DEF WriteFails, NotWritten, InstallFails, InstallEnds, IInv, ManifestFirst
<1>5. WrittenOrTodo'
  BY DEF WriteFails, NotWritten, InstallFails, InstallEnds, IInv, WrittenOrTodo
<1>6. CallsOwed'
  BY
     DEF WriteFails, NotWritten, InstallFails, InstallEnds, IInv, CallsOwed, AddsToHub,
         DropsFromHub
<1>7. DroppedOrRefused'
  BY DEF WriteFails, NotWritten, InstallFails, InstallEnds, IInv, DroppedOrRefused
<1>8. UnlinkedOrKept'
  BY DEF WriteFails, NotWritten, InstallFails, InstallEnds, IInv, UnlinkedOrKept
<1> QED BY <1>1, <1>2, <1>3, <1>4, <1>5, <1>6, <1>7, <1>8 DEF IInv

\* When no file is left the hub is told, at last of the new manifest.
LEMMA TellHubKeepsIInv == IInv /\ TellHub => IInv'
<1> SUFFICES ASSUME IInv, TellHub PROVE IInv'
  OBVIOUS
<1>1. TypeOK'
  <2>1. /\ files' \in [Tree -> SUBSET File] /\ listed' \in [Tree -> SUBSET File]
        /\ manifest' \in [Tree -> {"none", "broken", "ok"}]
        /\ hub' \in [Tree -> SUBSET File] /\ installed' \in [Tree -> SUBSET Packages]
    BY DEF TellHub, disk, IInv, TypeOK
  <2>2. /\ at' \in {"rest", "open", "manifest", "files", "hub", "removing", "unlinking"}
        /\ tree' \in Tree /\ package' \subseteq Packages /\ isUpdate' \in BOOLEAN
        /\ chainOk' \in BOOLEAN /\ undo' \in BOOLEAN
    BY DEF TellHub, installVars, IInv, TypeOK
  <2>3. todo' \in Seq(File) /\ calls' \in Seq(HubCall) /\ trees' \in Seq(Tree)
    BY CallsOfInstall DEF TellHub, installVars, IInv, TypeOK
  <2>4. faults' \in 0 .. MaxFaults
    BY FaultCounted DEF TellHub, IInv, TypeOK
  <2>5. left' \subseteq File /\ kept' \subseteq File
    BY DEF TellHub, installVars, IInv, TypeOK, unlinkVars
  <2> QED BY <2>1, <2>2, <2>3, <2>4, <2>5 DEF TypeOK
<1>2. InstalledIsComplete'
  BY DEF TellHub, disk, IInv, InstalledIsComplete
<1>3. OneAtWork'
  BY DEF TellHub, installVars, IInv, OneAtWork
<1>4. ManifestFirst'
  BY DEF TellHub, disk, installVars, IInv, ManifestFirst
<1>5. WrittenOrTodo'
  BY ElementsOfFew DEF TellHub, disk, installVars, IInv, WrittenOrTodo
<1>6. CallsOwed'
  BY CallsOfInstall DEF TellHub, installVars, IInv, CallsOwed, OneAtWork, DropsFromHub
<1>7. DroppedOrRefused'
  BY DEF TellHub, IInv, DroppedOrRefused
<1>8. UnlinkedOrKept'
  BY DEF TellHub, IInv, UnlinkedOrKept
<1> QED BY <1>1, <1>2, <1>3, <1>4, <1>5, <1>6, <1>7, <1>8 DEF IInv

\* A remove owes the hub a call for each tree it cleans.
LEMMA RemoveKeepsIInv ==
    ASSUME NEW v \in Tree
    PROVE  IInv /\ Remove(v) => IInv'
<1> SUFFICES ASSUME IInv, Remove(v) PROVE IInv'
  OBVIOUS
<1>1. TypeOK'
  BY CallsOfRemove DEF Remove, disk, installVars, IInv, TypeOK, unlinkVars
<1>2. InstalledIsComplete'
  BY DEF Remove, disk, IInv, InstalledIsComplete
<1>3. OneAtWork'
  <2>1. at' = "hub" /\ trees' = TreesOf(v) /\ trees' # << >>
    BY CallsOfRemove DEF Remove
  <2>2. \A t \in Elements(TreesOf(v)) : t \in Tree /\ \E n \in DOMAIN TreesOf(v) : TreesOf(v)[n] = t
    BY CallsOfRemove DEF Elements
  <2>3. \A t \in Elements(trees') : installed'[t] = {}
    BY <2>1, <2>2 DEF Remove
  <2> QED BY <2>1, <2>3 DEF OneAtWork, AddsToHub
<1>4. ManifestFirst'
  BY CallsOfRemove DEF Remove, IInv, ManifestFirst, AddsToHub
<1>5. WrittenOrTodo'
  BY CallsOfRemove DEF Remove, IInv, WrittenOrTodo, AddsToHub
<1>6. CallsOwed'
  BY CallsOfRemove DEF Remove, IInv, CallsOwed, AddsToHub
<1>7. DroppedOrRefused'
  BY DEF Remove, IInv, DroppedOrRefused
<1>8. UnlinkedOrKept'
  BY DEF Remove, IInv, UnlinkedOrKept
<1> QED BY <1>1, <1>2, <1>3, <1>4, <1>5, <1>6, <1>7, <1>8 DEF IInv

\* A rollback that fails before the service files changes none of them.
LEMMA RollbackFailsKeepsIInv == IInv /\ RollbackFails => IInv'
<1> SUFFICES ASSUME IInv, RollbackFails PROVE IInv'
  OBVIOUS
<1>1. TypeOK'
  <2>1. /\ files' \in [Tree -> SUBSET File] /\ listed' \in [Tree -> SUBSET File]
        /\ manifest' \in [Tree -> {"none", "broken", "ok"}]
        /\ hub' \in [Tree -> SUBSET File] /\ installed' \in [Tree -> SUBSET Packages]
    BY DEF RollbackFails, disk, IInv, TypeOK
  <2>2. /\ at' \in {"rest", "open", "manifest", "files", "hub", "removing", "unlinking"}
        /\ tree' \in Tree /\ package' \subseteq Packages /\ isUpdate' \in BOOLEAN
        /\ chainOk' \in BOOLEAN /\ undo' \in BOOLEAN
    BY DEF RollbackFails, installVars, IInv, TypeOK
  <2>3. todo' \in Seq(File) /\ calls' \in Seq(HubCall) /\ trees' \in Seq(Tree)
    BY DEF RollbackFails, installVars, IInv, TypeOK
  <2>4. faults' \in 0 .. MaxFaults
    BY FaultCounted DEF RollbackFails, IInv
  <2>5. left' \subseteq File /\ kept' \subseteq File
    BY DEF RollbackFails, installVars, IInv, TypeOK, unlinkVars
  <2> QED BY <2>1, <2>2, <2>3, <2>4, <2>5 DEF TypeOK
<1>2. InstalledIsComplete'
  BY DEF RollbackFails, disk, IInv, InstalledIsComplete
<1>3. OneAtWork'
  BY DEF RollbackFails, IInv, OneAtWork, AddsToHub
<1>4. ManifestFirst'
  BY DEF RollbackFails, IInv, ManifestFirst, AddsToHub
<1>5. WrittenOrTodo'
  BY DEF RollbackFails, IInv, WrittenOrTodo, AddsToHub
<1>6. CallsOwed'
  BY DEF RollbackFails, IInv, CallsOwed, AddsToHub, DropsFromHub
<1>7. DroppedOrRefused'
  BY DEF RollbackFails, IInv, DroppedOrRefused
<1>8. UnlinkedOrKept'
  BY DEF RollbackFails, IInv, UnlinkedOrKept
<1> QED BY <1>1, <1>2, <1>3, <1>4, <1>5, <1>6, <1>7, <1>8 DEF IInv

\* The manifest says what is to be unlinked.
LEMMA ReadManifestKeepsIInv == IInv /\ ReadManifest => IInv'
<1> SUFFICES ASSUME IInv, ReadManifest PROVE IInv'
  OBVIOUS
<1>1. TypeOK'
  <2>1. Head(trees) \in Tree
    BY HeadAndTail DEF ReadManifest, IInv, TypeOK, OneAtWork
  <2>2. left' \subseteq File /\ kept' \subseteq File
    BY <2>1 DEF ReadManifest, IInv, TypeOK
  <2> QED BY <2>2 DEF ReadManifest, disk, installVars, IInv, TypeOK
<1>2. InstalledIsComplete'
  BY DEF ReadManifest, disk, IInv, InstalledIsComplete
<1>3. OneAtWork'
  BY DEF ReadManifest, IInv, OneAtWork, AddsToHub
<1>4. ManifestFirst'
  BY DEF ReadManifest, IInv, ManifestFirst, AddsToHub
<1>5. WrittenOrTodo'
  BY DEF ReadManifest, IInv, WrittenOrTodo, AddsToHub
<1>6. CallsOwed'
  BY DEF ReadManifest, IInv, CallsOwed, AddsToHub, DropsFromHub
<1>7. DroppedOrRefused'
  BY DEF ReadManifest, IInv, DroppedOrRefused
<1>8. UnlinkedOrKept'
  BY DEF ReadManifest, disk, UnlinkedOrKept
<1> QED BY <1>1, <1>2, <1>3, <1>4, <1>5, <1>6, <1>7, <1>8 DEF IInv

\* A file is removed from a tree that does not count as installed, or stays.
LEMMA RemoveFileKeepsIInv == IInv /\ RemoveFile => IInv'
<1> SUFFICES ASSUME IInv, RemoveFile PROVE IInv'
  OBVIOUS
<1>1. PICK f \in left :
          /\ left' = left \ {f}
          /\ \/ /\ files' = [files EXCEPT ![Head(trees)] = @ \ {f}]
                /\ UNCHANGED <<kept, faults>>
             \/ Fault /\ kept' = kept \cup {f} /\ UNCHANGED files
  BY DEF RemoveFile
<1>2. /\ at = "unlinking" /\ at' = "unlinking"
      /\ UNCHANGED <<manifest, listed, hub, installed, installVars, calls, trees, chainOk, undo>>
  BY DEF RemoveFile
<1>3. Head(trees) \in Tree /\ Head(trees) \in Elements(trees)
  BY <1>2, HeadAndTail DEF IInv, TypeOK, OneAtWork
<1>4. TypeOK'
  <2>1. files' \in [Tree -> SUBSET File]
    BY <1>1 DEF IInv, TypeOK
  <2>2. faults' \in 0 .. MaxFaults
    BY <1>1, FaultCounted DEF IInv, TypeOK
  <2>3. left' \subseteq File /\ kept' \subseteq File
    BY <1>1 DEF IInv, TypeOK
  <2> QED BY <1>2, <2>1, <2>2, <2>3 DEF installVars, IInv, TypeOK
<1>5. InstalledIsComplete'
  BY <1>1, <1>2, <1>3 DEF IInv, TypeOK, InstalledIsComplete, OneAtWork
<1>6. OneAtWork'
  BY <1>2 DEF IInv, OneAtWork, AddsToHub
<1>7. ManifestFirst' /\ WrittenOrTodo'
  BY <1>2 DEF ManifestFirst, WrittenOrTodo, AddsToHub
<1>8. CallsOwed' /\ DroppedOrRefused'
  BY <1>2 DEF IInv, CallsOwed, DroppedOrRefused, AddsToHub, DropsFromHub
<1>9. UnlinkedOrKept'
  BY <1>1, <1>2, <1>3 DEF IInv, TypeOK, UnlinkedOrKept
<1> QED BY <1>4, <1>5, <1>6, <1>7, <1>8, <1>9 DEF IInv

\* The manifest goes, or stays, when all of it was tried, and the next tree follows.
LEMMA RemoveManifestKeepsIInv == IInv /\ RemoveManifest => IInv'
<1> SUFFICES ASSUME IInv, RemoveManifest PROVE IInv'
  OBVIOUS
<1>1. TypeOK'
  <2>1. /\ files' \in [Tree -> SUBSET File] /\ listed' \in [Tree -> SUBSET File]
        /\ manifest' \in [Tree -> {"none", "broken", "ok"}]
        /\ hub' \in [Tree -> SUBSET File] /\ installed' \in [Tree -> SUBSET Packages]
    BY DEF RemoveManifest, IInv, TypeOK
  <2>2. /\ at' \in {"rest", "open", "manifest", "files", "hub", "removing", "unlinking"}
        /\ tree' \in Tree /\ package' \subseteq Packages /\ isUpdate' \in BOOLEAN
        /\ chainOk' \in BOOLEAN /\ undo' \in BOOLEAN
    BY DEF RemoveManifest, installVars, NextTree, IInv, TypeOK
  <2>3. todo' \in Seq(File) /\ calls' \in Seq(HubCall) /\ trees' \in Seq(Tree)
    BY DEF RemoveManifest, installVars, NextTree, OneAtWork, IInv, TypeOK
  <2>4. faults' \in 0 .. MaxFaults
    BY FaultCounted DEF RemoveManifest, IInv, TypeOK
  <2>5. left' \subseteq File /\ kept' \subseteq File
    BY DEF RemoveManifest, installVars, NextTree, IInv, TypeOK, unlinkVars
  <2> QED BY <2>1, <2>2, <2>3, <2>4, <2>5 DEF TypeOK
<1>2. InstalledIsComplete'
  BY HeadAndTail DEF RemoveManifest, IInv, TypeOK, InstalledIsComplete, OneAtWork
<1>3. OneAtWork'
  BY HeadAndTail DEF RemoveManifest, NextTree, IInv, TypeOK, OneAtWork, AddsToHub
<1>4. ManifestFirst'
  BY DEF RemoveManifest, NextTree, IInv, ManifestFirst, AddsToHub
<1>5. WrittenOrTodo'
  BY DEF RemoveManifest, NextTree, IInv, WrittenOrTodo, AddsToHub
<1>6. CallsOwed'
  BY DEF RemoveManifest, NextTree, IInv, CallsOwed, AddsToHub, DropsFromHub
<1>7. DroppedOrRefused'
  BY HeadAndTail DEF RemoveManifest, NextTree, IInv, TypeOK, DroppedOrRefused
<1>8. UnlinkedOrKept'
  BY HeadAndTail DEF RemoveManifest, NextTree, IInv, TypeOK, UnlinkedOrKept
<1> QED BY <1>1, <1>2, <1>3, <1>4, <1>5, <1>6, <1>7, <1>8 DEF IInv

\* A tree without a manifest is passed over.
LEMMA NoManifestKeepsIInv == IInv /\ NoManifest => IInv'
<1> SUFFICES ASSUME IInv, NoManifest PROVE IInv'
  OBVIOUS
<1>1. TypeOK'
  <2>1. /\ files' \in [Tree -> SUBSET File] /\ listed' \in [Tree -> SUBSET File]
        /\ manifest' \in [Tree -> {"none", "broken", "ok"}]
        /\ hub' \in [Tree -> SUBSET File] /\ installed' \in [Tree -> SUBSET Packages]
    BY DEF NoManifest, disk, IInv, TypeOK
  <2>2. /\ at' \in {"rest", "open", "manifest", "files", "hub", "removing", "unlinking"}
        /\ tree' \in Tree /\ package' \subseteq Packages /\ isUpdate' \in BOOLEAN
        /\ chainOk' \in BOOLEAN /\ undo' \in BOOLEAN
    BY DEF NoManifest, installVars, NextTree, IInv, TypeOK
  <2>3. todo' \in Seq(File) /\ calls' \in Seq(HubCall) /\ trees' \in Seq(Tree)
    BY DEF NoManifest, installVars, NextTree, OneAtWork, IInv, TypeOK
  <2>4. faults' \in 0 .. MaxFaults
    BY FaultCounted DEF NoManifest, IInv, TypeOK
  <2>5. left' \subseteq File /\ kept' \subseteq File
    BY DEF NoManifest, installVars, NextTree, IInv, TypeOK, unlinkVars
  <2> QED BY <2>1, <2>2, <2>3, <2>4, <2>5 DEF TypeOK
<1>2. InstalledIsComplete'
  BY DEF NoManifest, disk, IInv, InstalledIsComplete
<1>3. OneAtWork'
  BY HeadAndTail DEF NoManifest, NextTree, IInv, TypeOK, OneAtWork, AddsToHub
<1>4. ManifestFirst'
  BY DEF NoManifest, NextTree, IInv, ManifestFirst, AddsToHub
<1>5. WrittenOrTodo'
  BY DEF NoManifest, NextTree, IInv, WrittenOrTodo, AddsToHub
<1>6. CallsOwed'
  BY DEF NoManifest, NextTree, IInv, CallsOwed, AddsToHub, DropsFromHub
<1>7. DroppedOrRefused'
  BY HeadAndTail DEF NoManifest, NextTree, IInv, TypeOK, DroppedOrRefused
<1>8. UnlinkedOrKept'
  BY HeadAndTail DEF NoManifest, NextTree, IInv, TypeOK, UnlinkedOrKept
<1> QED BY <1>1, <1>2, <1>3, <1>4, <1>5, <1>6, <1>7, <1>8 DEF IInv

\* The hub agrees to the remove of an update; the add is still to be made.
LEMMA UpdateDropped ==
    ASSUME IInv, HubAgrees, AddsToHub, calls = <<Call("remove", tree), Call("add", tree)>>
    PROVE  IInv'
<1>1. /\ Head(calls) = Call("remove", tree) /\ Tail(calls) = <<Call("add", tree)>>
      /\ Tail(calls) # << >>
      /\ tree \in Tree /\ Head(calls).verb = "remove" /\ Head(calls).tree = tree
  BY CallsOfInstall, HeadsOfFew DEF IInv, TypeOK
<1>2. /\ hub' = [hub EXCEPT ![tree] = {}]
      /\ calls' = <<Call("add", tree)>>
      /\ UNCHANGED <<disk, faults, installed, at, installVars, trees, chainOk, unlinkVars, undo>>
  BY <1>1 DEF HubAgrees
<1>3. <<Call("add", tree)>> \in Seq(HubCall)
  BY <1>1, CallsOfInstall
<1> QED
  <2>1. TypeOK'
    <3>1. /\ files' \in [Tree -> SUBSET File] /\ listed' \in [Tree -> SUBSET File]
          /\ manifest' \in [Tree -> {"none", "broken", "ok"}]
          /\ hub' \in [Tree -> SUBSET File] /\ installed' \in [Tree -> SUBSET Packages]
      BY <1>1, <1>2 DEF disk, IInv, TypeOK
    <3>2. /\ at' \in {"rest", "open", "manifest", "files", "hub", "removing", "unlinking"}
          /\ tree' \in Tree /\ package' \subseteq Packages /\ isUpdate' \in BOOLEAN
          /\ chainOk' \in BOOLEAN /\ undo' \in BOOLEAN
      BY <1>2 DEF installVars, IInv, TypeOK
    <3>3. todo' \in Seq(File) /\ calls' \in Seq(HubCall) /\ trees' \in Seq(Tree)
      BY <1>2, <1>3 DEF installVars, IInv, TypeOK
    <3>4. faults' \in 0 .. MaxFaults
      BY <1>2 DEF IInv, TypeOK
    <3>5. left' \subseteq File /\ kept' \subseteq File
      BY <1>2 DEF installVars, IInv, TypeOK, unlinkVars
    <3> QED BY <3>1, <3>2, <3>3, <3>4, <3>5 DEF TypeOK
  <2>2. InstalledIsComplete'
    BY <1>1, <1>2 DEF IInv, InstalledIsComplete, disk, OneAtWork
  <2>3. OneAtWork'
    BY <1>1, <1>2 DEF IInv, OneAtWork, installVars
  <2>4. ManifestFirst'
    BY <1>1, <1>2 DEF IInv, ManifestFirst, disk, installVars
  <2>5. WrittenOrTodo'
    BY <1>1, <1>2 DEF IInv, WrittenOrTodo, disk, installVars
  <2>6. CallsOwed'
    BY <1>1, <1>2 DEF IInv, CallsOwed, AddsToHub, DropsFromHub, installVars
  <2>7. DroppedOrRefused'
    BY <1>1, <1>2 DEF IInv, DroppedOrRefused
  <2>8. UnlinkedOrKept'
    BY <1>2 DEF AddsToHub, UnlinkedOrKept
  <2> QED BY <2>1, <2>2, <2>3, <2>4, <2>5, <2>6, <2>7, <2>8 DEF IInv

\* The hub agrees to the add: the install is complete.
LEMMA Added ==
    ASSUME IInv, HubAgrees, AddsToHub, calls = <<Call("add", tree)>>
    PROVE  IInv'
<1>1. /\ Head(calls) = Call("add", tree) /\ Tail(calls) = << >>
      /\ tree \in Tree /\ Head(calls).verb = "add" /\ Head(calls).tree = tree
  BY CallsOfInstall, HeadsOfFew DEF IInv, TypeOK
<1>2. /\ manifest[tree] = "ok"
      /\ hub' = [hub EXCEPT ![tree] = listed[tree]]
      /\ at' = "rest" /\ package' = {} /\ isUpdate' = FALSE /\ todo' = << >> /\ calls' = << >>
      /\ installed' = [installed EXCEPT ![tree] = package]
      /\ trees = << >>
      /\ UNCHANGED <<disk, faults, tree, trees, chainOk, unlinkVars, undo>>
  BY <1>1 DEF HubAgrees, ChainEnds, InstallEnds, Pointless, AddsToHub
<1> QED
  <2>1. TypeOK'
    <3>1. /\ files' \in [Tree -> SUBSET File] /\ listed' \in [Tree -> SUBSET File]
          /\ manifest' \in [Tree -> {"none", "broken", "ok"}]
          /\ hub' \in [Tree -> SUBSET File] /\ installed' \in [Tree -> SUBSET Packages]
      BY <1>1, <1>2 DEF disk, IInv, TypeOK
    <3>2. /\ at' \in {"rest", "open", "manifest", "files", "hub", "removing", "unlinking"}
          /\ tree' \in Tree /\ package' \subseteq Packages /\ isUpdate' \in BOOLEAN
          /\ chainOk' \in BOOLEAN /\ undo' \in BOOLEAN
      BY <1>1, <1>2 DEF IInv, TypeOK
    <3>3. todo' \in Seq(File) /\ calls' \in Seq(HubCall) /\ trees' \in Seq(Tree)
      BY <1>1, <1>2 DEF IInv
    <3>4. faults' \in 0 .. MaxFaults
      BY <1>2 DEF IInv, TypeOK
    <3>5. left' \subseteq File /\ kept' \subseteq File
      BY <1>1, <1>2 DEF IInv, TypeOK, unlinkVars
    <3> QED BY <3>1, <3>2, <3>3, <3>4, <3>5 DEF TypeOK
  <2>2. InstalledIsComplete'
    BY <1>1, <1>2 DEF IInv, TypeOK, InstalledIsComplete, disk, ManifestFirst, WrittenOrTodo
  <2>3. OneAtWork'
    BY <1>1, <1>2, ElementsOfFew DEF IInv, OneAtWork, AddsToHub
  <2>4. ManifestFirst'
    BY <1>1, <1>2 DEF IInv, ManifestFirst, disk
  <2>5. WrittenOrTodo'
    BY <1>1, <1>2 DEF IInv, WrittenOrTodo
  <2>6. CallsOwed'
    BY <1>1, <1>2 DEF IInv, CallsOwed, AddsToHub, DropsFromHub
  <2>7. DroppedOrRefused'
    BY <1>1, <1>2 DEF IInv, DroppedOrRefused
  <2>8. UnlinkedOrKept'
    BY <1>1, <1>2 DEF IInv, UnlinkedOrKept
  <2> QED BY <2>1, <2>2, <2>3, <2>4, <2>5, <2>6, <2>7, <2>8 DEF IInv

\* The hub drops the last tree of a remove.
LEMMA LastDropped ==
    ASSUME IInv, HubAgrees, DropsFromHub, Tail(calls) = << >>
    PROVE  IInv'
<1> DEFINE c == Head(calls)
<1>1. /\ calls # << >> /\ calls \in Seq(HubCall)
      /\ \A t \in Elements(trees) : hub[t] = {} \/ \E d \in Elements(calls) : d.tree = t
      /\ \A d \in Elements(calls) : d.verb = "remove" /\ d.tree \in Elements(trees)
  BY DEF IInv, TypeOK, CallsOwed
<1>2. c \in HubCall /\ Elements(calls) = {c}
  BY <1>1, HeadAndTail, ElementsOfFew
<1>3. c.tree \in Tree /\ c.tree \in Elements(trees) /\ c.verb = "remove"
  BY <1>1, <1>2 DEF HubCall
<1>4. /\ hub' = [hub EXCEPT ![c.tree] = {}]
      /\ at' = "removing" /\ chainOk' = TRUE /\ calls' = << >>
      /\ UNCHANGED <<disk, faults, installed, installVars, trees, unlinkVars, undo>>
  BY <1>3 DEF HubAgrees, ChainEnds, DropsFromHub
<1>5. trees # << >> /\ \A t \in Elements(trees) : hub[t] = {} \/ t = c.tree
  BY <1>1, <1>2 DEF DropsFromHub
<1>6. \A t \in Elements(trees) : t \in Tree
  BY DEF Elements, IInv, TypeOK
<1> HIDE DEF c
<1> QED
  <2>1. TypeOK'
    <3>1. /\ files' \in [Tree -> SUBSET File] /\ listed' \in [Tree -> SUBSET File]
          /\ manifest' \in [Tree -> {"none", "broken", "ok"}]
          /\ hub' \in [Tree -> SUBSET File] /\ installed' \in [Tree -> SUBSET Packages]
      BY <1>3, <1>4 DEF disk, IInv, TypeOK
    <3>2. /\ at' \in {"rest", "open", "manifest", "files", "hub", "removing", "unlinking"}
          /\ tree' \in Tree /\ package' \subseteq Packages /\ isUpdate' \in BOOLEAN
          /\ chainOk' \in BOOLEAN /\ undo' \in BOOLEAN
      BY <1>4 DEF installVars, IInv, TypeOK
    <3>3. todo' \in Seq(File) /\ calls' \in Seq(HubCall) /\ trees' \in Seq(Tree)
      BY <1>4 DEF installVars, IInv, TypeOK
    <3>4. faults' \in 0 .. MaxFaults
      BY <1>4 DEF IInv, TypeOK
    <3>5. left' \subseteq File /\ kept' \subseteq File
      BY <1>4 DEF installVars, IInv, TypeOK, unlinkVars
    <3> QED BY <3>1, <3>2, <3>3, <3>4, <3>5 DEF TypeOK
  <2>2. InstalledIsComplete'
    BY <1>3, <1>4, <1>5, <1>6 DEF IInv, InstalledIsComplete, disk, OneAtWork
  <2>3. OneAtWork'
    BY <1>3, <1>4, <1>5, <1>6 DEF IInv, OneAtWork, AddsToHub
  <2>4. ManifestFirst'
    BY <1>3, <1>4, <1>5, <1>6 DEF IInv, ManifestFirst, AddsToHub
  <2>5. WrittenOrTodo'
    BY <1>3, <1>4, <1>5, <1>6 DEF IInv, WrittenOrTodo, AddsToHub
  <2>6. CallsOwed'
    BY <1>3, <1>4, <1>5, <1>6 DEF IInv, CallsOwed, AddsToHub, DropsFromHub
  <2>7. DroppedOrRefused'
    BY <1>3, <1>4, <1>5, <1>6 DEF IInv, TypeOK, DroppedOrRefused
  <2>8. UnlinkedOrKept'
    BY <1>3, <1>4, <1>5, <1>6 DEF IInv, TypeOK, UnlinkedOrKept
  <2> QED BY <2>1, <2>2, <2>3, <2>4, <2>5, <2>6, <2>7, <2>8 DEF IInv

\* The hub drops a tree of a remove, and there is another one.
LEMMA Dropped ==
    ASSUME IInv, HubAgrees, DropsFromHub, Tail(calls) # << >>
    PROVE  IInv'
<1> DEFINE c == Head(calls)
<1>1. /\ calls # << >> /\ calls \in Seq(HubCall)
      /\ \A t \in Elements(trees) : hub[t] = {} \/ \E d \in Elements(calls) : d.tree = t
      /\ \A d \in Elements(calls) : d.verb = "remove" /\ d.tree \in Elements(trees)
  BY DEF IInv, TypeOK, CallsOwed
<1>2. /\ c \in HubCall /\ Tail(calls) \in Seq(HubCall)
      /\ Elements(calls) = {c} \cup Elements(Tail(calls))
  BY <1>1, HeadAndTail
<1>3. c.tree \in Tree /\ c.tree \in Elements(trees) /\ c.verb = "remove"
  BY <1>1, <1>2 DEF HubCall
<1>4. /\ hub' = [hub EXCEPT ![c.tree] = {}]
      /\ calls' = Tail(calls)
      /\ UNCHANGED <<disk, faults, installed, at, installVars, trees, chainOk, unlinkVars, undo>>
  BY <1>3 DEF HubAgrees
<1>5. \A t \in Elements(trees) :
          hub[t] = {} \/ t = c.tree \/ \E d \in Elements(Tail(calls)) : d.tree = t
  BY <1>1, <1>2
<1>6. trees # << >> /\ \A t \in Elements(trees) : t \in Tree
  BY DEF Elements, IInv, TypeOK, DropsFromHub
<1> HIDE DEF c
<1> QED
  <2>1. TypeOK'
    <3>1. /\ files' \in [Tree -> SUBSET File] /\ listed' \in [Tree -> SUBSET File]
          /\ manifest' \in [Tree -> {"none", "broken", "ok"}]
          /\ hub' \in [Tree -> SUBSET File] /\ installed' \in [Tree -> SUBSET Packages]
      BY <1>3, <1>4 DEF disk, IInv, TypeOK
    <3>2. /\ at' \in {"rest", "open", "manifest", "files", "hub", "removing", "unlinking"}
          /\ tree' \in Tree /\ package' \subseteq Packages /\ isUpdate' \in BOOLEAN
          /\ chainOk' \in BOOLEAN /\ undo' \in BOOLEAN
      BY <1>4 DEF installVars, IInv, TypeOK
    <3>3. todo' \in Seq(File) /\ calls' \in Seq(HubCall) /\ trees' \in Seq(Tree)
      BY <1>2, <1>4 DEF installVars, IInv, TypeOK
    <3>4. faults' \in 0 .. MaxFaults
      BY <1>4 DEF IInv, TypeOK
    <3>5. left' \subseteq File /\ kept' \subseteq File
      BY <1>4 DEF installVars, IInv, TypeOK, unlinkVars
    <3> QED BY <3>1, <3>2, <3>3, <3>4, <3>5 DEF TypeOK
  <2>2. InstalledIsComplete'
    BY <1>2, <1>3, <1>4, <1>5, <1>6 DEF IInv, InstalledIsComplete, disk, OneAtWork
  <2>3. OneAtWork'
    BY <1>2, <1>3, <1>4, <1>5, <1>6 DEF IInv, OneAtWork, AddsToHub
  <2>4. ManifestFirst'
    BY <1>2, <1>3, <1>4, <1>5, <1>6 DEF IInv, ManifestFirst, AddsToHub, disk, installVars
  <2>5. WrittenOrTodo'
    BY <1>2, <1>3, <1>4, <1>5, <1>6 DEF IInv, WrittenOrTodo, AddsToHub, disk, installVars
  <2>6. CallsOwed'
    BY <1>2, <1>3, <1>4, <1>5, <1>6, <1>1 DEF IInv, TypeOK, CallsOwed, AddsToHub
  <2>7. DroppedOrRefused'
    BY <1>2, <1>3, <1>4, <1>5, <1>6 DEF IInv, DroppedOrRefused
  <2>8. UnlinkedOrKept'
    BY <1>4 DEF DropsFromHub, UnlinkedOrKept
  <2> QED BY <2>1, <2>2, <2>3, <2>4, <2>5, <2>6, <2>7, <2>8 DEF IInv

\* What the hub may agree to is one of the four cases above.
LEMMA HubAgreesKeepsIInv == IInv /\ HubAgrees => IInv'
<1> SUFFICES ASSUME IInv, HubAgrees PROVE IInv'
  OBVIOUS
<1>1. AddsToHub \/ DropsFromHub
  BY DEF HubAgrees, AddsToHub, DropsFromHub
<1>2. CASE AddsToHub
  BY <1>2, UpdateDropped, Added DEF IInv, CallsOwed
<1>3. CASE DropsFromHub
  BY <1>3, LastDropped, Dropped
<1> QED BY <1>1, <1>2, <1>3

\* A refusal ends an install, and lets a remove go on as refused.
LEMMA HubRefusesKeepsIInv == IInv /\ HubRefuses => IInv'
<1> SUFFICES ASSUME IInv, HubRefuses PROVE IInv'
  OBVIOUS
<1>1. TypeOK'
  <2>1. /\ files' \in [Tree -> SUBSET File] /\ listed' \in [Tree -> SUBSET File]
        /\ manifest' \in [Tree -> {"none", "broken", "ok"}]
        /\ hub' \in [Tree -> SUBSET File] /\ installed' \in [Tree -> SUBSET Packages]
    BY DEF HubRefuses, disk, ChainEnds, InstallFails, IInv, TypeOK
  <2>2. /\ at' \in {"rest", "open", "manifest", "files", "hub", "removing", "unlinking"}
        /\ tree' \in Tree /\ package' \subseteq Packages /\ isUpdate' \in BOOLEAN
        /\ chainOk' \in BOOLEAN /\ undo' \in BOOLEAN
    BY DEF HubRefuses, installVars, ChainEnds, InstallFails, InstallEnds, IInv, TypeOK
  <2>3. todo' \in Seq(File) /\ calls' \in Seq(HubCall) /\ trees' \in Seq(Tree)
    <3>1. calls' = << >> /\ trees' = trees /\ (todo' = todo \/ todo' = << >>)
      BY DEF HubRefuses, installVars, ChainEnds, InstallFails, InstallEnds
    <3>2. << >> \in Seq(File) /\ << >> \in Seq(HubCall)
      OBVIOUS
    <3>3. todo \in Seq(File) /\ trees \in Seq(Tree)
      BY DEF IInv, TypeOK
    <3> QED BY <3>1, <3>2, <3>3, Zenon
  <2>4. faults' \in 0 .. MaxFaults
    BY FaultCounted DEF HubRefuses, IInv, TypeOK
  <2>5. left' \subseteq File /\ kept' \subseteq File
    BY DEF HubRefuses, installVars, ChainEnds, InstallFails, InstallEnds, IInv, TypeOK, unlinkVars
  <2> QED BY <2>1, <2>2, <2>3, <2>4, <2>5 DEF TypeOK
<1>2. InstalledIsComplete'
  BY DEF HubRefuses, disk, ChainEnds, InstallFails, IInv, InstalledIsComplete
<1>3. OneAtWork'
  BY DEF HubRefuses, ChainEnds, InstallFails, InstallEnds, IInv, OneAtWork, AddsToHub
<1>4. ManifestFirst'
  BY DEF HubRefuses, ChainEnds, InstallFails, InstallEnds, IInv, ManifestFirst, AddsToHub
<1>5. WrittenOrTodo'
  BY DEF HubRefuses, ChainEnds, InstallFails, InstallEnds, IInv, WrittenOrTodo, AddsToHub
<1>6. CallsOwed'
  BY
     DEF HubRefuses, ChainEnds, InstallFails, InstallEnds, IInv, CallsOwed, AddsToHub,
         DropsFromHub
<1>7. DroppedOrRefused'
  BY DEF HubRefuses, ChainEnds, InstallFails, InstallEnds, IInv, DroppedOrRefused
<1>8. UnlinkedOrKept'
  BY DEF HubRefuses, ChainEnds, InstallFails, InstallEnds, IInv, UnlinkedOrKept
<1> QED BY <1>1, <1>2, <1>3, <1>4, <1>5, <1>6, <1>7, <1>8 DEF IInv

\* A crash ends what is under way where it stands.
LEMMA CrashKeepsIInv == IInv /\ Crash => IInv'
<1> SUFFICES ASSUME IInv, Crash PROVE IInv'
  OBVIOUS
<1>1. TypeOK'
  <2>1. /\ files' \in [Tree -> SUBSET File] /\ listed' \in [Tree -> SUBSET File]
        /\ manifest' \in [Tree -> {"none", "broken", "ok"}]
        /\ hub' \in [Tree -> SUBSET File] /\ installed' \in [Tree -> SUBSET Packages]
    BY DEF Crash, disk, IInv, TypeOK
  <2>2. /\ at' \in {"rest", "open", "manifest", "files", "hub", "removing", "unlinking"}
        /\ tree' \in Tree /\ package' \subseteq Packages /\ isUpdate' \in BOOLEAN
        /\ chainOk' \in BOOLEAN /\ undo' \in BOOLEAN
    BY DEF Crash, InstallEnds, IInv, TypeOK
  <2>3. todo' \in Seq(File) /\ calls' \in Seq(HubCall) /\ trees' \in Seq(Tree)
    BY DEF Crash, InstallEnds, IInv
  <2>4. faults' \in 0 .. MaxFaults
    BY FaultCounted DEF Crash, IInv
  <2>5. left' \subseteq File /\ kept' \subseteq File
    BY DEF Crash, InstallEnds, IInv, TypeOK, unlinkVars
  <2> QED BY <2>1, <2>2, <2>3, <2>4, <2>5 DEF TypeOK
<1>2. InstalledIsComplete'
  BY DEF Crash, disk, IInv, InstalledIsComplete
<1>3. OneAtWork'
  BY ElementsOfFew DEF Crash, InstallEnds, IInv, OneAtWork, AddsToHub
<1>4. ManifestFirst'
  BY DEF Crash, InstallEnds, IInv, ManifestFirst, AddsToHub
<1>5. WrittenOrTodo'
  BY DEF Crash, InstallEnds, IInv, WrittenOrTodo
<1>6. CallsOwed'
  BY DEF Crash, InstallEnds, IInv, CallsOwed, AddsToHub, DropsFromHub
<1>7. DroppedOrRefused'
  BY DEF Crash, InstallEnds, IInv, DroppedOrRefused
<1>8. UnlinkedOrKept'
  BY DEF Crash, InstallEnds, IInv, UnlinkedOrKept
<1> QED BY <1>1, <1>2, <1>3, <1>4, <1>5, <1>6, <1>7, <1>8 DEF IInv

\* Nothing changes in a stuttering step.
LEMMA StutterKeepsIInv == IInv /\ UNCHANGED vars => IInv'
<1> SUFFICES ASSUME IInv, UNCHANGED vars PROVE IInv'
  OBVIOUS
<1>1. TypeOK'
  BY DEF IInv, TypeOK, vars, disk, installVars, unlinkVars
<1>2. InstalledIsComplete' /\ OneAtWork'
  BY DEF IInv, InstalledIsComplete, OneAtWork, AddsToHub, vars, disk, installVars
<1>3. ManifestFirst' /\ WrittenOrTodo'
  BY DEF IInv, ManifestFirst, WrittenOrTodo, AddsToHub, vars, disk, installVars
<1>4. CallsOwed' /\ DroppedOrRefused' /\ UnlinkedOrKept'
  BY DEF IInv, CallsOwed, DroppedOrRefused, UnlinkedOrKept, AddsToHub, DropsFromHub, vars, disk,
         installVars, unlinkVars
<1> QED BY <1>1, <1>2, <1>3, <1>4 DEF IInv

\* Every step is one of these.
LEMMA NextKeepsIInv == IInv /\ [Next]_vars => IInv'
BY InstallKeepsIInv, NotOpenedKeepsIInv, OpenManifestKeepsIInv, WriteManifestKeepsIInv,
   WriteFileKeepsIInv, WriteFailsKeepsIInv, TellHubKeepsIInv, RemoveKeepsIInv,
   RollbackFailsKeepsIInv, ReadManifestKeepsIInv, RemoveFileKeepsIInv, RemoveManifestKeepsIInv,
   NoManifestKeepsIInv,
   HubAgreesKeepsIInv, HubRefusesKeepsIInv, CrashKeepsIInv, StutterKeepsIInv
   DEF Next

\* IInv holds in every reachable state.
LEMMA Inductive == Spec => []IInv
BY InitIInv, NextKeepsIInv, PTL DEF Spec

---------------------------------------------------------------------------
(* What one step may do.                                                   *)

\* What a step does to files and manifests: only the tree it works in matters.
LEMMA StepForgetsNothing ==
    ASSUME IInv, [Next]_vars, NEW t \in Tree, NEW f \in Forgotten(t)' \ Forgotten(t)
    PROVE  \/ manifest'[t] = "broken"
           \/ at = "unlinking" /\ f \in kept
           \/ at = "files" /\ \E p \in package : ~NamedAfterApp(p)
<1>1. CASE UNCHANGED disk
  BY <1>1 DEF Forgotten, disk
<1>2. CASE OpenManifest
  BY <1>2 DEF OpenManifest, Forgotten, IInv, TypeOK
<1>3. CASE WriteManifest
  <2>1. PICK p \in package :
            \/ /\ NamedAfterApp(p) /\ listed' = [listed EXCEPT ![tree] = Manifest(p)]
               /\ UNCHANGED files
            \/ UNCHANGED <<files, manifest, listed>>
    BY <1>3 DEF WriteManifest
  <2>2. NamedAfterApp(p) => listed[tree] = {}
    BY <1>3, <2>1 DEF WriteManifest, IInv, ManifestFirst
  <2> QED BY <2>1, <2>2 DEF Forgotten, IInv, TypeOK
<1>4. CASE WriteFile
  <2>1. Head(todo) \in Elements(todo)
    BY <1>4, HeadAndTail DEF WriteFile, IInv, TypeOK
  <2>2. PICK p \in Packages : package = {p}
    BY <1>4 DEF WriteFile, IInv, OneAtWork
  <2>3. NamedAfterApp(p) => manifest[tree] = "broken" \/ Head(todo) \in listed[tree]
    BY <1>4, <2>1, <2>2, WrittenIsListed DEF WriteFile, IInv, ManifestFirst, WrittenOrTodo
  <2>4. f = Head(todo) /\ t = tree /\ f \notin listed[tree] /\ at = "files"
        /\ manifest' = manifest
    BY <1>4 DEF WriteFile, Forgotten, IInv, TypeOK
  <2> QED BY <2>2, <2>3, <2>4
<1>5. CASE WriteFails
  BY <1>5 DEF WriteFails, NotWritten, Forgotten, IInv, TypeOK
<1>6. CASE RemoveFile
  BY <1>6 DEF RemoveFile, Forgotten, IInv, TypeOK
<1>7. CASE RemoveManifest
  <2>1. /\ Head(trees) \in Tree /\ at = "unlinking"
        /\ files[Head(trees)] \cap listed[Head(trees)] \subseteq kept
    BY <1>7, HeadAndTail DEF RemoveManifest, UnlinkedOrKept, IInv, TypeOK, OneAtWork
  <2> QED BY <1>7, <2>1 DEF RemoveManifest, Forgotten, IInv, TypeOK
<1> QED BY <1>1, <1>2, <1>3, <1>4, <1>5, <1>6, <1>7
      DEF Next, vars, Install, NotOpened, TellHub, Remove, RollbackFails, ReadManifest, NoManifest,
          HubAgrees, HubRefuses, Crash

\* A manifest goes only where the hub has dropped it, or something was refused.
LEMMA StepRemovesDropped ==
    ASSUME IInv, [Next]_vars, NEW t \in Tree, manifest[t] = "ok", manifest'[t] = "none"
    PROVE  hub[t] = {} \/ ~chainOk
<1>1. CASE UNCHANGED manifest
  BY <1>1
<1>2. CASE RemoveManifest
  <2>1. Head(trees) \in Elements(trees) /\ Head(trees) \in Tree
    BY <1>2, HeadAndTail DEF RemoveManifest, IInv, TypeOK, OneAtWork
  <2>2. t = Head(trees)
    BY <1>2, <2>1 DEF RemoveManifest, IInv, TypeOK
  <2>3. at = "unlinking"
    BY <1>2 DEF RemoveManifest
  <2> QED BY <2>1, <2>2, <2>3 DEF IInv, DroppedOrRefused
<1>3. CASE OpenManifest
  BY <1>3 DEF OpenManifest, IInv, TypeOK
<1>4. CASE WriteManifest
  BY <1>4 DEF WriteManifest, IInv, TypeOK
<1> QED BY <1>1, <1>2, <1>3, <1>4
      DEF Next, vars, disk, Install, NotOpened, WriteFile, WriteFails, NotWritten, TellHub,
          Remove, RollbackFails, ReadManifest, RemoveFile, NoManifest, HubAgrees, HubRefuses, Crash

---------------------------------------------------------------------------
(* The theorems.                                                           *)

(***************************************************************************)
(* An app that counts as installed has all its files, and the hub has read *)
(* its manifest, which lists them if the package gives it the app's name,  *)
(* whatever earlier attempts have left behind.                             *)
(***************************************************************************)
THEOREM InstallsAreComplete == Spec => [](TypeOK /\ InstalledIsComplete)
<1>1. IInv => TypeOK /\ InstalledIsComplete
  BY DEF IInv
<1> QED BY <1>1, Inductive, PTL

(***************************************************************************)
(* No step makes a file unknown to the manifest, but the rewriting of the  *)
(* manifest itself, a remove that could not unlink that file, and an       *)
(* install whose manifest has another name.                                *)
(***************************************************************************)
THEOREM FilesAreRemembered == Spec => NoFileForgotten
<1>1. IInv /\ [Next]_vars =>
        [\A t \in Tree : \A f \in Forgotten(t)' \ Forgotten(t) :
            \/ manifest'[t] = "broken"
            \/ at = "unlinking" /\ f \in kept
            \/ at = "files" /\ \E p \in package : ~NamedAfterApp(p)]_vars
  BY StepForgetsNothing
<1> QED BY <1>1, Inductive, PTL DEF Spec, NoFileForgotten

(***************************************************************************)
(* A remove deletes files only after the hub has dropped their manifest,   *)
(* or has refused to.                                                      *)
(***************************************************************************)
THEOREM HubIsToldFirst == Spec => HubToldFirst
<1>1. IInv /\ [Next]_vars =>
        [\A t \in Tree :
            manifest[t] = "ok" /\ manifest'[t] = "none" => hub[t] = {} \/ ~chainOk]_vars
  BY StepRemovesDropped
<1> QED BY <1>1, Inductive, PTL DEF Spec, HubToldFirst

=============================================================================
