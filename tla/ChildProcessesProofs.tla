--------------------------- MODULE ChildProcessesProofs ---------------------------
(***************************************************************************)
(* Theorems about ChildProcesses, for any number of objects, processes,    *)
(* sources and roots.                                                      *)
(***************************************************************************)
EXTENDS ChildProcesses, TLAPS

---------------------------------------------------------------------------
(* The inductive invariant.                                                *)

\* What an object believes of its child is true, and its owner has been told once it has none.
ObjectsKnow ==
    \A o \in Wrapper : object[o] # NoObject =>
        IF object[o].m_pid = NoPid
        THEN object[o].m_sourceId = NoSource /\ object[o].answers = 1
        ELSE /\ object[o].m_sourceId \in SourceId
             /\ watch[object[o].m_sourceId] = [pid |-> object[o].m_pid, target |-> o]
             /\ object[o].answers = 0

\* Whoever watches opkg tells m_locked of its exit.
Unlocks(target) ==
    target = "unlocker" \/ (target \in Wrapper /\ object[target].kind = "opkg")

WatchesKnow ==
    \A s \in SourceId : watch[s] # NoWatch =>
        /\ watch[s].pid \in Children
        /\ watch[s].target \in Wrapper =>
               /\ object[watch[s].target].m_sourceId = s
               /\ object[watch[s].target].m_pid = watch[s].pid
        /\ proc[watch[s].pid].program = "opkg" <=> Unlocks(watch[s].target)

OneWatch ==
    /\ \A p \in Children : \E s \in SourceId : watch[s].pid = p
    /\ \A s, u \in SourceId : watch[s] # NoWatch /\ watch[s].pid = watch[u].pid => s = u

\* Only opkg has its output read, up to the end, which comes after its exit.
OutputOf(o) ==
    IF object[o].kind = "opkg"
    THEN /\ object[o].out = "attached" => object[o].m_pid # NoPid
         /\ object[o].out # "attached" =>
                /\ object[o].unread = 0
                /\ object[o].m_pid # NoPid => ~Running(object[o].m_pid)
    ELSE object[o].out = "none" /\ object[o].unread = 0

OutputRead == \A o \in Wrapper : OutputOf(o)

\* One package at a time is unpacked; one that was alone with tmp/<id> remains so.
UnpacksAlone ==
    /\ \A o, u \in Wrapper : object[o].kind = "package" /\ object[u].kind = "package" => o = u
    /\ \A o \in Wrapper : object[o].alone =>
           /\ object[o].kind = "package"
           /\ object[o].m_pid # NoPid =>
                  /\ archive # "other"
                  /\ \A p \in Pid : Running(p) /\ proc[p].program \in {"ar", "tar"}
                                    => p = object[o].m_pid

IInv ==
    /\ TypeOK /\ ObjectsKnow /\ WatchesKnow /\ OneWatch /\ LockIsOpkg /\ OutputRead
    /\ UnpacksAlone


---------------------------------------------------------------------------
(* Lemmas about the operators of the model.                                *)

\* An id that is free is chosen where there is one.
LEMMA FreshIsOneOf == \A ids : ids # {} => Fresh(ids) \in ids
BY DEF Fresh

\* An object that is there remains one when its owner is called back.
LEMMA ObjectChanges ==
    \A x \in Object :
        /\ x # NoObject
        /\ [x EXCEPT !.m_pid = NoPid, !.m_sourceId = NoSource, !.answers = @ + 1] \in Object
<1> SUFFICES ASSUME NEW x \in Object
             PROVE  /\ x # NoObject
                    /\ [x EXCEPT !.m_pid = NoPid, !.m_sourceId = NoSource, !.answers = @ + 1] \in Object
  OBVIOUS
<1>1. x # NoObject
  BY DEF Object, NoObject, Kind
<1>2. x.answers + 1 \in Nat
  BY DEF Object
<1>3. \A n \in Nat : [x EXCEPT !.m_pid = NoPid, !.m_sourceId = NoSource, !.answers = n] \in Object
  BY DEF Object
<1> QED BY <1>1, <1>2, <1>3

\* A process that is started is one.
LEMMA ProcessChanges ==
    /\ \A program \in Program, root \in Root : NewProcess(program, root) \in Process
    /\ \A x \in Process : x # NoProcess
BY DEF Process, NoProcess, NewProcess

\* The watches there are.
LEMMA WatchIsWatch ==
    ASSUME ChildConstants
    PROVE  /\ \A p \in Pid, t \in Wrapper \cup {"reaper", "unlocker"} :
                  [pid |-> p, target |-> t] \in Watch
           /\ \A w \in Watch : w # NoWatch
           /\ NoWatch.pid \notin Pid
BY DEF Watch, NoWatch, ChildConstants

\* An object that is there has the type of one.
LEMMA ThereIsAnObject ==
    ASSUME TypeOK, ChildConstants, NEW o \in Wrapper
    PROVE  /\ object[o] # NoObject => object[o] \in Object
           /\ object[o].kind \in Kind \/ object[o].out = "attached" => object[o] \in Object
           /\ object[o].unread \in 0 .. MaxLines /\ object[o].out \in {"none", "attached", "dropped"}
           /\ object[o].m_pid \in Pid \cup {NoPid}
           /\ object[o].m_sourceId \in SourceId \cup {NoSource}
           /\ object[o].m_targetItems \in 0 .. 1
<1>1. object[o] \in Object \cup {NoObject}
  BY DEF TypeOK
<1>2. CASE object[o] \in Object
  BY <1>2 DEF Object
<1>3. CASE object[o] = NoObject
  BY <1>3 DEF NoObject, Kind, ChildConstants
<1> QED BY <1>1, <1>2, <1>3

\* A free id is chosen for the child and for its watch, and the object knows both.
LEMMA SpawnTakesFreeIds ==
    ASSUME NEW o, NEW new \in Object, NEW program, NEW root,
           SpawnWatched(o, new, program, root, proc, watch)
    PROVE  \E p \in Pid, s \in SourceId, born \in Object :
               /\ proc[p] = NoProcess /\ watch[s] = NoWatch
               /\ born.kind = new.kind /\ born.m_pid = p /\ born.m_sourceId = s
               /\ born.m_targetItems = new.m_targetItems /\ born.out = new.out
               /\ born.unread = new.unread /\ born.answers = new.answers /\ (born.alone <=> new.alone)
               /\ proc' = [proc EXCEPT ![p] = NewProcess(program, root)]
               /\ watch' = [watch EXCEPT ![s] = [pid |-> p, target |-> o]]
               /\ object' = [object EXCEPT ![o] = born]
<1> DEFINE p == Fresh(FreePids(proc))
           s == Fresh(FreeSources(watch))
           born == [new EXCEPT !.m_pid = p, !.m_sourceId = s]
<1>1. p \in FreePids(proc) /\ s \in FreeSources(watch)
  BY FreshIsOneOf DEF SpawnWatched
<1>2. p \in Pid /\ s \in SourceId /\ proc[p] = NoProcess /\ watch[s] = NoWatch
  BY <1>1 DEF FreePids, FreeSources
<1>3. /\ proc' = [proc EXCEPT ![p] = NewProcess(program, root)]
      /\ watch' = [watch EXCEPT ![s] = [pid |-> p, target |-> o]]
      /\ object' = [object EXCEPT ![o] = born]
  BY DEF SpawnWatched
<1> HIDE DEF p, s
<1>4. /\ born \in Object /\ born.kind = new.kind /\ born.m_pid = p /\ born.m_sourceId = s
      /\ born.m_targetItems = new.m_targetItems /\ born.out = new.out
      /\ born.unread = new.unread /\ born.answers = new.answers /\ (born.alone <=> new.alone)
  BY <1>2 DEF Object
<1> HIDE DEF born
<1> QED BY <1>2, <1>3, <1>4

\* What clear and the destructors do to the watch of an object's child.
LEMMA HandOverKeepsAWatch ==
    ASSUME TypeOK, ChildConstants, NEW o \in Wrapper, NEW target, HandOver(o, target)
    PROVE  \/ object[o].m_sourceId = NoSource /\ watch' = watch
           \/ /\ object[o].m_sourceId \in SourceId /\ object[o].m_pid = NoPid
              /\ watch' = [watch EXCEPT ![object[o].m_sourceId] = NoWatch]
           \/ /\ object[o].m_sourceId \in SourceId /\ object[o].m_pid \in Pid
              /\ \E s \in SourceId :
                     /\ watch[s] = NoWatch \/ s = object[o].m_sourceId
                     /\ watch' = [[watch EXCEPT ![object[o].m_sourceId] = NoWatch]
                                      EXCEPT ![s] = [pid |-> object[o].m_pid, target |-> target]]
<1> DEFINE removed == [watch EXCEPT ![object[o].m_sourceId] = NoWatch]
           s == Fresh(FreeSources(removed))
<1>1. object[o].m_sourceId \in SourceId \cup {NoSource} /\ object[o].m_pid \in Pid \cup {NoPid}
  BY ThereIsAnObject
<1>2. watch \in [SourceId -> Watch \cup {NoWatch}]
  BY DEF TypeOK
<1>3. CASE object[o].m_sourceId = NoSource
  BY <1>3 DEF HandOver
<1>4. CASE object[o].m_sourceId # NoSource /\ object[o].m_pid = NoPid
  BY <1>1, <1>4 DEF HandOver
<1>5. CASE object[o].m_sourceId # NoSource /\ object[o].m_pid # NoPid
  <2>1. object[o].m_sourceId \in FreeSources(removed)
    BY <1>1, <1>2, <1>5 DEF FreeSources
  <2>2. s \in FreeSources(removed)
    BY <2>1, FreshIsOneOf
  <2>3. s \in SourceId /\ (watch[s] = NoWatch \/ s = object[o].m_sourceId)
    BY <1>1, <1>2, <2>2 DEF FreeSources
  <2>4. watch' = [removed EXCEPT ![s] = [pid |-> object[o].m_pid, target |-> target]]
    BY <1>5 DEF HandOver
  <2> HIDE DEF s
  <2> QED BY <1>1, <1>5, <2>3, <2>4
<1> QED BY <1>3, <1>4, <1>5

---------------------------------------------------------------------------
(* A child is started.                                                     *)

\* An object that believes to have a child has one, of this daemon, and its watch.
LEMMA BelievedChildIsThere ==
    ASSUME TypeOK, ObjectsKnow, WatchesKnow, ChildConstants,
           NEW o \in Wrapper, object[o].m_pid # NoPid
    PROVE  /\ object[o] \in Object /\ object[o] # NoObject
           /\ object[o].m_pid \in Pid /\ object[o].m_sourceId \in SourceId
           /\ watch[object[o].m_sourceId] = [pid |-> object[o].m_pid, target |-> o]
           /\ watch[object[o].m_sourceId] # NoWatch
           /\ object[o].m_pid \in Children /\ object[o].answers = 0
           /\ proc[object[o].m_pid].program = "opkg" <=> object[o].kind = "opkg"
<1>1. object[o] # NoObject
  BY DEF NoObject
<1>2. object[o] \in Object /\ object[o].m_pid \in Pid
  BY <1>1, ThereIsAnObject
<1>3. /\ object[o].m_sourceId \in SourceId /\ object[o].answers = 0
      /\ watch[object[o].m_sourceId] = [pid |-> object[o].m_pid, target |-> o]
  BY <1>1 DEF ObjectsKnow
<1>4. watch[object[o].m_sourceId] # NoWatch
  BY <1>2, <1>3, WatchIsWatch
<1>5. object[o].m_pid \in Children /\ (proc[object[o].m_pid].program = "opkg" <=> object[o].kind = "opkg")
  BY <1>3, <1>4 DEF WatchesKnow, Unlocks, ChildConstants
<1> QED BY <1>1, <1>2, <1>3, <1>4, <1>5

\* An object that starts its child as it is made.
LEMMA BirthKeepsTheBooks ==
    ASSUME TypeOK, ObjectsKnow, WatchesKnow, OneWatch, LockIsOpkg, ChildConstants,
           NEW o \in Wrapper, object[o] = NoObject,
           NEW born \in Object, NEW program \in Program, NEW root \in Root,
           program = "opkg" <=> born.kind = "opkg",
           program = "opkg" => ~m_locked,
           m_locked' = (m_locked \/ program = "opkg"),
           NEW p \in Pid, NEW s \in SourceId, proc[p] = NoProcess, watch[s] = NoWatch,
           born.m_pid = p, born.m_sourceId = s, born.answers = 0,
           proc' = [proc EXCEPT ![p] = NewProcess(program, root)],
           watch' = [watch EXCEPT ![s] = [pid |-> p, target |-> o]],
           object' = [object EXCEPT ![o] = born]
    PROVE  /\ object' \in [Wrapper -> Object \cup {NoObject}]
           /\ watch' \in [SourceId -> Watch \cup {NoWatch}]
           /\ proc' \in [Pid -> Process \cup {NoProcess}]
           /\ m_locked' \in BOOLEAN
           /\ ObjectsKnow' /\ WatchesKnow' /\ OneWatch' /\ LockIsOpkg'
<1>1. /\ object \in [Wrapper -> Object \cup {NoObject}]
      /\ watch \in [SourceId -> Watch \cup {NoWatch}]
      /\ proc \in [Pid -> Process \cup {NoProcess}]
      /\ m_locked \in BOOLEAN
  BY DEF TypeOK
<1>2. born \in Object
  OBVIOUS
<1>3. /\ born # NoObject /\ born.m_pid = p /\ born.m_sourceId = s
      /\ born.answers = 0
  BY <1>2, ObjectChanges
<1>4. /\ NewProcess(program, root) \in Process /\ NewProcess(program, root) # NoProcess
      /\ NewProcess(program, root).program = program /\ NewProcess(program, root).own
  BY ProcessChanges DEF NewProcess
<1>5. [pid |-> p, target |-> o] \in Watch
  BY WatchIsWatch
<1>6. /\ object'[o] = born /\ \A u \in Wrapper : u # o => object'[u] = object[u]
      /\ watch'[s] = [pid |-> p, target |-> o] /\ \A u \in SourceId : u # s => watch'[u] = watch[u]
      /\ proc'[p] = NewProcess(program, root) /\ \A q \in Pid : q # p => proc'[q] = proc[q]
  BY <1>1
<1>7. /\ object' \in [Wrapper -> Object \cup {NoObject}]
      /\ watch' \in [SourceId -> Watch \cup {NoWatch}]
      /\ proc' \in [Pid -> Process \cup {NoProcess}]
      /\ m_locked' \in BOOLEAN
  BY <1>1, <1>2, <1>4, <1>5
<1>8. p \notin Children /\ p # NoPid /\ p \in Children' /\ s # NoSource
      /\ \A q \in Pid : q # p => (q \in Children' <=> q \in Children)
  BY <1>4, <1>6 DEF Children, ChildConstants
<1>9. ObjectsKnow'
  <2> SUFFICES ASSUME NEW u \in Wrapper, object'[u] # NoObject
               PROVE  IF object'[u].m_pid = NoPid
                      THEN object'[u].m_sourceId = NoSource /\ object'[u].answers = 1
                      ELSE /\ object'[u].m_sourceId \in SourceId
                           /\ watch'[object'[u].m_sourceId] = [pid |-> object'[u].m_pid, target |-> u]
                           /\ object'[u].answers = 0
    BY DEF ObjectsKnow
  <2>1. CASE u = o
    BY <2>1, <1>3, <1>6, <1>8
  <2>2. CASE u # o /\ object[u].m_pid = NoPid
    BY <2>2, <1>6 DEF ObjectsKnow
  <2>3. CASE u # o /\ object[u].m_pid # NoPid
    <3>1. object[u].m_sourceId \in SourceId /\ object[u].m_sourceId # s /\ object[u].answers = 0
          /\ watch[object[u].m_sourceId] = [pid |-> object[u].m_pid, target |-> u]
      BY <2>3, BelievedChildIsThere
    <3> QED BY <3>1, <2>3, <1>6
  <2> QED BY <2>1, <2>2, <2>3
<1>10. WatchesKnow'
  <2> SUFFICES ASSUME NEW u \in SourceId, watch'[u] # NoWatch
               PROVE  /\ watch'[u].pid \in Children'
                      /\ watch'[u].target \in Wrapper =>
                             /\ object'[watch'[u].target].m_sourceId = u
                             /\ object'[watch'[u].target].m_pid = watch'[u].pid
                      /\ proc'[watch'[u].pid].program = "opkg"
                             <=> \/ watch'[u].target = "unlocker"
                                 \/ watch'[u].target \in Wrapper /\ object'[watch'[u].target].kind = "opkg"
    BY DEF WatchesKnow, Unlocks
  <2>1. CASE u = s
    <3>1. watch'[u].pid = p /\ watch'[u].target = o /\ object'[o] = born
      BY <2>1, <1>6
    <3>2. proc'[p].program = "opkg" <=> born.kind = "opkg"
      BY <1>3, <1>4, <1>6
    <3>3. o # "unlocker"
      BY DEF ChildConstants
    <3> QED BY <3>1, <3>2, <3>3, <2>1, <1>3, <1>8
  <2>2. CASE u # s
    <3>1. /\ watch[u].pid \in Children
          /\ watch[u].target \in Wrapper =>
                 /\ object[watch[u].target].m_sourceId = u
                 /\ object[watch[u].target].m_pid = watch[u].pid
          /\ proc[watch[u].pid].program = "opkg" <=> Unlocks(watch[u].target)
      BY <2>2, <1>6 DEF WatchesKnow
    <3>2. watch[u].target # o
      BY <3>1 DEF NoObject, ChildConstants
    <3>3. watch[u].pid \in Pid /\ watch[u].pid # p
      BY <3>1, <1>8 DEF Children
    <3>4. watch'[u] = watch[u] /\ proc'[watch[u].pid] = proc[watch[u].pid]
          /\ (watch[u].target \in Wrapper => object'[watch[u].target] = object[watch[u].target])
      BY <3>2, <3>3, <2>2, <1>6
    <3>5. watch'[u].pid \in Children'
      BY <3>1, <3>3, <3>4, <1>8
    <3> QED BY <3>1, <3>4, <3>5 DEF Unlocks
  <2> QED BY <2>1, <2>2
<1>11. OneWatch'
  <2>1. ASSUME NEW q \in Children' PROVE \E u \in SourceId : watch'[u].pid = q
    <3>1. CASE q = p
      BY <3>1, <1>6
    <3>2. CASE q # p
      <4>1. q \in Children /\ q \in Pid
        BY <3>2, <1>8 DEF Children
      <4>2. PICK u \in SourceId : watch[u].pid = q
        BY <4>1 DEF OneWatch
      <4>3. u # s
        BY <4>1, <4>2, WatchIsWatch
      <4> QED BY <4>2, <4>3, <1>6
    <3> QED BY <3>1, <3>2
  <2>2. ASSUME NEW u \in SourceId, NEW v \in SourceId, watch'[u] # NoWatch, watch'[u].pid = watch'[v].pid
        PROVE  u = v
    <3>1. \A t \in SourceId : t # s => watch'[t].pid # p
      <4> SUFFICES ASSUME NEW t \in SourceId, t # s, watch[t].pid = p PROVE FALSE
        BY <1>6
      <4>1. watch[t] # NoWatch
        BY WatchIsWatch
      <4> QED BY <4>1, <1>8 DEF WatchesKnow
    <3>2. CASE u = s \/ v = s
      BY <3>1, <3>2, <2>2, <1>6
    <3>3. CASE u # s /\ v # s
      BY <3>3, <2>2, <1>6 DEF OneWatch
    <3> QED BY <3>2, <3>3
  <2> QED BY <2>1, <2>2 DEF OneWatch
<1>12. LockIsOpkg'
  <2>1. \A q \in Pid : q # p => (q \in OpkgChildren' <=> q \in OpkgChildren)
    BY <1>6, <1>8 DEF OpkgChildren
  <2>2. p \in OpkgChildren' <=> program = "opkg"
    BY <1>4, <1>6, <1>8 DEF OpkgChildren
  <2>3. OpkgChildren \subseteq Pid /\ OpkgChildren' \subseteq Pid /\ p \notin OpkgChildren
    BY <1>8 DEF OpkgChildren, Children
  <2>4. CASE program = "opkg"
    BY <2>1, <2>2, <2>3, <2>4 DEF LockIsOpkg
  <2>5. CASE program # "opkg"
    <3>1. \A q \in Pid : q \in OpkgChildren' <=> q \in OpkgChildren
      BY <2>1, <2>2, <2>3, <2>5
    <3>2. OpkgChildren' = OpkgChildren
      BY <3>1, <2>3
    <3> QED BY <3>2, <2>5 DEF LockIsOpkg
  <2> QED BY <2>4, <2>5
<1> QED BY <1>7, <1>9, <1>10, <1>11, <1>12

\* A package whose ar has ended well, and is followed by tar.
LEMMA NextChildKeepsTheBooks ==
    ASSUME TypeOK, ObjectsKnow, WatchesKnow, OneWatch, LockIsOpkg, ChildConstants,
           NEW o \in Wrapper, NEW s0 \in SourceId, object[o].kind = "package", Ready(s0, o),
           NEW p \in Pid, NEW s \in SourceId,
           NEW next \in Object, next.kind = "package", next.m_pid = p, next.m_sourceId = s,
           next.answers = 0,
           Reaped(s0)[p] = NoProcess, Fired(s0)[s] = NoWatch,
           proc' = [Reaped(s0) EXCEPT ![p] = NewProcess("tar", DevRoot)],
           watch' = [Fired(s0) EXCEPT ![s] = [pid |-> p, target |-> o]],
           m_locked' = m_locked,
           object' = [object EXCEPT ![o] = next]
    PROVE  /\ object' \in [Wrapper -> Object \cup {NoObject}]
           /\ watch' \in [SourceId -> Watch \cup {NoWatch}]
           /\ proc' \in [Pid -> Process \cup {NoProcess}]
           /\ m_locked' \in BOOLEAN
           /\ ObjectsKnow' /\ WatchesKnow' /\ OneWatch' /\ LockIsOpkg'
<1>1. /\ object \in [Wrapper -> Object \cup {NoObject}]
      /\ watch \in [SourceId -> Watch \cup {NoWatch}]
      /\ proc \in [Pid -> Process \cup {NoProcess}]
      /\ m_locked \in BOOLEAN
  BY DEF TypeOK
<1>2. /\ object[o] \in Object /\ object[o] # NoObject
      /\ object[o].m_pid \in Pid /\ object[o].m_sourceId = s0
      /\ watch[s0] = [pid |-> object[o].m_pid, target |-> o]
      /\ object[o].m_pid \in Children /\ object[o].answers = 0
      /\ proc[object[o].m_pid].program # "opkg"
      /\ watch[s0].pid = object[o].m_pid
  <2>1. object[o].m_sourceId = s0 /\ object[o].m_pid = watch[s0].pid /\ watch[s0].pid \in Pid
    BY DEF Ready, WatchesKnow, Children
  <2>2. object[o].m_pid # NoPid
    BY <2>1 DEF ChildConstants
  <2> QED BY <2>1, <2>2, BelievedChildIsThere
<1>3. PICK p0 \in Pid : p0 = object[o].m_pid
  BY <1>2
<1>4. next # NoObject /\ next.kind = "package" /\ next.m_pid = p /\ next.m_sourceId = s
      /\ next.answers = 0
  BY ObjectChanges
<1>5. /\ NewProcess("tar", DevRoot) \in Process /\ NewProcess("tar", DevRoot) # NoProcess
      /\ NewProcess("tar", DevRoot).program = "tar" /\ NewProcess("tar", DevRoot).own
  BY ProcessChanges DEF NewProcess, Program, ChildConstants
<1>6. [pid |-> p, target |-> o] \in Watch
  BY WatchIsWatch
<1>7. /\ object'[o] = next /\ \A u \in Wrapper : u # o => object'[u] = object[u]
      /\ watch'[s] = [pid |-> p, target |-> o] /\ (s0 # s => watch'[s0] = NoWatch)
      /\ \A u \in SourceId : u # s /\ u # s0 => watch'[u] = watch[u]
      /\ proc'[p] = NewProcess("tar", DevRoot) /\ (p0 # p => proc'[p0] = NoProcess)
      /\ \A q \in Pid : q # p /\ q # p0 => proc'[q] = proc[q]
      /\ p = p0 \/ proc[p] = NoProcess
      /\ s = s0 \/ watch[s] = NoWatch
  BY <1>1, <1>2, <1>3 DEF Reaped, Fired
<1>8. /\ object' \in [Wrapper -> Object \cup {NoObject}]
      /\ watch' \in [SourceId -> Watch \cup {NoWatch}]
      /\ proc' \in [Pid -> Process \cup {NoProcess}]
      /\ m_locked' \in BOOLEAN
  BY <1>1, <1>4, <1>5, <1>6 DEF Reaped, Fired
<1>9. /\ p # NoPid /\ p \in Children' /\ s # NoSource
      /\ p \in Children => p = p0
      /\ p0 \in Children' => p = p0
      /\ \A q \in Pid : q # p /\ q # p0 => (q \in Children' <=> q \in Children)
  BY <1>5, <1>7 DEF Children, ChildConstants
<1>10. ObjectsKnow'
  <2> SUFFICES ASSUME NEW u \in Wrapper, object'[u] # NoObject
               PROVE  IF object'[u].m_pid = NoPid
                      THEN object'[u].m_sourceId = NoSource /\ object'[u].answers = 1
                      ELSE /\ object'[u].m_sourceId \in SourceId
                           /\ watch'[object'[u].m_sourceId] = [pid |-> object'[u].m_pid, target |-> u]
                           /\ object'[u].answers = 0
    BY DEF ObjectsKnow
  <2>1. CASE u = o
    BY <2>1, <1>4, <1>7, <1>9
  <2>2. CASE u # o /\ object[u].m_pid = NoPid
    BY <2>2, <1>7 DEF ObjectsKnow
  <2>3. CASE u # o /\ object[u].m_pid # NoPid
    <3>1. object[u].m_sourceId \in SourceId /\ object[u].answers = 0
          /\ watch[object[u].m_sourceId] = [pid |-> object[u].m_pid, target |-> u]
          /\ watch[object[u].m_sourceId] # NoWatch
      BY <2>3, BelievedChildIsThere
    <3>2. object[u].m_sourceId # s0
      BY <3>1, <2>3, <1>2
    <3>3. object[u].m_sourceId # s
      BY <3>1, <3>2, <1>7
    <3> QED BY <3>1, <3>2, <3>3, <2>3, <1>7
  <2> QED BY <2>1, <2>2, <2>3
<1>11. WatchesKnow'
  <2> SUFFICES ASSUME NEW u \in SourceId, watch'[u] # NoWatch
               PROVE  /\ watch'[u].pid \in Children'
                      /\ watch'[u].target \in Wrapper =>
                             /\ object'[watch'[u].target].m_sourceId = u
                             /\ object'[watch'[u].target].m_pid = watch'[u].pid
                      /\ proc'[watch'[u].pid].program = "opkg"
                             <=> \/ watch'[u].target = "unlocker"
                                 \/ watch'[u].target \in Wrapper /\ object'[watch'[u].target].kind = "opkg"
    BY DEF WatchesKnow, Unlocks
  <2>1. CASE u = s
    <3>1. watch'[u].pid = p /\ watch'[u].target = o /\ object'[o] = next
      BY <2>1, <1>7
    <3>2. proc'[p].program # "opkg" /\ next.kind # "opkg"
      BY <1>4, <1>5, <1>7
    <3>3. o # "unlocker"
      BY DEF ChildConstants
    <3> QED BY <3>1, <3>2, <3>3, <2>1, <1>4, <1>9
  <2>2. CASE u # s
    <3>1. u # s0 /\ watch'[u] = watch[u]
      BY <2>2, <1>7
    <3>2. /\ watch[u].pid \in Children
          /\ watch[u].target \in Wrapper =>
                 /\ object[watch[u].target].m_sourceId = u
                 /\ object[watch[u].target].m_pid = watch[u].pid
          /\ proc[watch[u].pid].program = "opkg" <=> Unlocks(watch[u].target)
      BY <3>1 DEF WatchesKnow
    <3>3. watch[u].target # o
      BY <3>1, <3>2, <1>2
    <3>4. watch[u].pid \in Pid /\ watch[u].pid # p0
      BY <3>1, <3>2, <1>2, <1>3 DEF Children, OneWatch
    <3>5. watch[u].pid # p
      BY <3>2, <3>4, <1>9
    <3>6. proc'[watch[u].pid] = proc[watch[u].pid]
          /\ (watch[u].target \in Wrapper => object'[watch[u].target] = object[watch[u].target])
      BY <3>3, <3>4, <3>5, <1>7
    <3>7. watch'[u].pid \in Children'
      BY <3>1, <3>2, <3>4, <3>5, <1>9
    <3> QED BY <3>1, <3>2, <3>6, <3>7 DEF Unlocks
  <2> QED BY <2>1, <2>2
<1>12. OneWatch'
  <2>1. ASSUME NEW q \in Children' PROVE \E u \in SourceId : watch'[u].pid = q
    <3>1. CASE q = p
      BY <3>1, <1>7
    <3>2. CASE q # p
      <4>1. q \in Pid /\ q # p0 /\ q \in Children
        BY <3>2, <1>9 DEF Children
      <4>2. PICK u \in SourceId : watch[u].pid = q
        BY <4>1 DEF OneWatch
      <4>3. u # s0
        BY <4>1, <4>2, <1>2, <1>3
      <4>4. u # s
        BY <4>1, <4>2, <4>3, <1>7, WatchIsWatch
      <4> QED BY <4>2, <4>3, <4>4, <1>7
    <3> QED BY <3>1, <3>2
  <2>2. ASSUME NEW u \in SourceId, NEW v \in SourceId, watch'[u] # NoWatch, watch'[u].pid = watch'[v].pid
        PROVE  u = v
    <3>1. \A t \in SourceId : t # s => watch'[t].pid # p
      <4> SUFFICES ASSUME NEW t \in SourceId, t # s, watch'[t].pid = p PROVE FALSE
        OBVIOUS
      <4>1. watch'[t] # NoWatch
        BY WatchIsWatch
      <4>2. t # s0 /\ watch[t] # NoWatch /\ watch[t].pid = p
        BY <4>1, <1>7
      <4>3. p \in Children
        BY <4>2 DEF WatchesKnow
      <4>4. watch[t].pid = watch[s0].pid
        BY <4>2, <4>3, <1>2, <1>3, <1>9
      <4> QED BY <4>2, <4>4 DEF OneWatch
    <3>2. CASE u = s \/ v = s
      BY <3>1, <3>2, <2>2, <1>7
    <3>3. CASE u # s /\ v # s
      <4>1. u # s0 /\ watch[u] # NoWatch /\ watch'[u] = watch[u]
        BY <3>3, <2>2, <1>7
      <4>2. watch[u].pid \in Pid
        BY <4>1 DEF WatchesKnow, Children
      <4>3. v # s0
        BY <4>1, <4>2, <3>3, <2>2, <1>7, WatchIsWatch
      <4> QED BY <4>1, <4>3, <3>3, <2>2, <1>7 DEF OneWatch
    <3> QED BY <3>2, <3>3
  <2> QED BY <2>1, <2>2 DEF OneWatch
<1>13. LockIsOpkg'
  <2>1. \A q \in Pid : q # p /\ q # p0 => (q \in OpkgChildren' <=> q \in OpkgChildren)
    BY <1>7, <1>9 DEF OpkgChildren
  <2>2. p \notin OpkgChildren' /\ p0 \notin OpkgChildren
    BY <1>2, <1>3, <1>5, <1>7 DEF OpkgChildren
  <2>3. p \notin OpkgChildren /\ p0 \notin OpkgChildren'
    BY <2>2, <1>9 DEF OpkgChildren
  <2>4. \A q \in Pid : q \in OpkgChildren' <=> q \in OpkgChildren
    BY <2>1, <2>2, <2>3
  <2>5. OpkgChildren' = OpkgChildren
    BY <2>4 DEF OpkgChildren, Children
  <2> QED BY <2>5 DEF LockIsOpkg
<1> QED BY <1>8, <1>10, <1>11, <1>12, <1>13

---------------------------------------------------------------------------
(* A child is reaped.                                                      *)

\* Its watch is dispatched, to the object if that lives, and to m_locked if it was opkg.
LEMMA ReapingKeepsTheBooks ==
    ASSUME TypeOK, ObjectsKnow, WatchesKnow, OneWatch, LockIsOpkg, ChildConstants,
           NEW s \in SourceId, watch[s] # NoWatch,
           proc' = Reaped(s), watch' = Fired(s),
           m_locked' = (m_locked /\ ~Unlocks(watch[s].target)),
           \/ watch[s].target \in Wrapper /\ Answered(watch[s].target)
           \/ watch[s].target \notin Wrapper /\ object' = object
    PROVE  /\ object' \in [Wrapper -> Object \cup {NoObject}]
           /\ watch' \in [SourceId -> Watch \cup {NoWatch}]
           /\ proc' \in [Pid -> Process \cup {NoProcess}]
           /\ m_locked' \in BOOLEAN
           /\ ObjectsKnow' /\ WatchesKnow' /\ OneWatch' /\ LockIsOpkg'
<1>1. /\ object \in [Wrapper -> Object \cup {NoObject}]
      /\ watch \in [SourceId -> Watch \cup {NoWatch}]
      /\ proc \in [Pid -> Process \cup {NoProcess}]
      /\ m_locked \in BOOLEAN
  BY DEF TypeOK
<1>2. PICK p \in Pid : p = watch[s].pid /\ p \in Children /\ p # NoPid
                       /\ (proc[p].program = "opkg" <=> Unlocks(watch[s].target))
  BY DEF WatchesKnow, Children, ChildConstants
<1>3. watch[s].target \in Wrapper =>
          /\ object[watch[s].target].m_pid = p /\ object[watch[s].target].m_sourceId = s
          /\ object[watch[s].target] \in Object /\ object[watch[s].target].answers = 0
  BY <1>2, BelievedChildIsThere DEF WatchesKnow
<1>4. \A o \in Wrapper : o = watch[s].target =>
          /\ object'[o] \in Object /\ object'[o].m_pid = NoPid /\ object'[o].m_sourceId = NoSource
          /\ object'[o].answers = 1 /\ object'[o].kind = object[o].kind
  <2> TAKE o \in Wrapper
  <2> HAVE o = watch[s].target
  <2>1. object'[o] = [object[o] EXCEPT !.m_pid = NoPid, !.m_sourceId = NoSource, !.answers = @ + 1]
    BY <1>1 DEF Answered
  <2>2. object[o] \in Object /\ object[o].answers = 0
    BY <1>3
  <2>3. object'[o] \in Object
    BY <2>1, <2>2, ObjectChanges
  <2> QED BY <2>1, <2>2, <2>3 DEF Object
<1>5. /\ \A u \in Wrapper : u # watch[s].target => object'[u] = object[u]
      /\ watch'[s] = NoWatch /\ \A u \in SourceId : u # s => watch'[u] = watch[u]
      /\ proc'[p] = NoProcess /\ \A q \in Pid : q # p => proc'[q] = proc[q]
  BY <1>1, <1>2 DEF Answered, Reaped, Fired
<1>6. /\ object' \in [Wrapper -> Object \cup {NoObject}]
      /\ watch' \in [SourceId -> Watch \cup {NoWatch}]
      /\ proc' \in [Pid -> Process \cup {NoProcess}]
      /\ m_locked' \in BOOLEAN
  <2>1. object' \in [Wrapper -> Object \cup {NoObject}]
    <3>1. \A u \in Wrapper : object'[u] \in Object \cup {NoObject}
      BY <1>1, <1>4, <1>5
    <3> QED BY <3>1, <1>1 DEF Answered
  <2> QED BY <2>1, <1>1 DEF Reaped, Fired
<1>7. p \notin Children' /\ \A q \in Pid : q # p => (q \in Children' <=> q \in Children)
  BY <1>5 DEF Children
<1>8. ObjectsKnow'
  <2> SUFFICES ASSUME NEW u \in Wrapper, object'[u] # NoObject
               PROVE  IF object'[u].m_pid = NoPid
                      THEN object'[u].m_sourceId = NoSource /\ object'[u].answers = 1
                      ELSE /\ object'[u].m_sourceId \in SourceId
                           /\ watch'[object'[u].m_sourceId] = [pid |-> object'[u].m_pid, target |-> u]
                           /\ object'[u].answers = 0
    BY DEF ObjectsKnow
  <2>1. CASE u = watch[s].target
    BY <2>1, <1>4
  <2>2. CASE u # watch[s].target /\ object[u].m_pid = NoPid
    BY <2>2, <1>5 DEF ObjectsKnow
  <2>3. CASE u # watch[s].target /\ object[u].m_pid # NoPid
    <3>1. object[u].m_sourceId \in SourceId /\ object[u].answers = 0
          /\ watch[object[u].m_sourceId] = [pid |-> object[u].m_pid, target |-> u]
      BY <2>3, BelievedChildIsThere
    <3>2. object[u].m_sourceId # s
      BY <3>1, <2>3
    <3> QED BY <3>1, <3>2, <2>3, <1>5
  <2> QED BY <2>1, <2>2, <2>3
<1>9. WatchesKnow'
  <2> SUFFICES ASSUME NEW u \in SourceId, watch'[u] # NoWatch
               PROVE  /\ watch'[u].pid \in Children'
                      /\ watch'[u].target \in Wrapper =>
                             /\ object'[watch'[u].target].m_sourceId = u
                             /\ object'[watch'[u].target].m_pid = watch'[u].pid
                      /\ proc'[watch'[u].pid].program = "opkg"
                             <=> \/ watch'[u].target = "unlocker"
                                 \/ watch'[u].target \in Wrapper /\ object'[watch'[u].target].kind = "opkg"
    BY DEF WatchesKnow, Unlocks
  <2>1. u # s /\ watch'[u] = watch[u]
    BY <1>5
  <2>2. /\ watch[u].pid \in Children
        /\ watch[u].target \in Wrapper =>
               /\ object[watch[u].target].m_sourceId = u
               /\ object[watch[u].target].m_pid = watch[u].pid
        /\ proc[watch[u].pid].program = "opkg" <=> Unlocks(watch[u].target)
    BY <2>1 DEF WatchesKnow
  <2>3. watch[u].target \in Wrapper => watch[u].target # watch[s].target
    BY <2>1, <2>2, <1>3
  <2>4. watch[u].pid \in Pid /\ watch[u].pid # p
    BY <2>1, <2>2, <1>2 DEF Children, OneWatch
  <2>5. proc'[watch[u].pid] = proc[watch[u].pid]
        /\ (watch[u].target \in Wrapper => object'[watch[u].target] = object[watch[u].target])
    BY <2>3, <2>4, <1>5
  <2>6. watch'[u].pid \in Children'
    BY <2>1, <2>2, <2>4, <1>7
  <2> QED BY <2>1, <2>2, <2>5, <2>6 DEF Unlocks
<1>10. OneWatch'
  <2>1. ASSUME NEW q \in Children' PROVE \E u \in SourceId : watch'[u].pid = q
    <3>1. q \in Pid /\ q # p /\ q \in Children
      BY <1>7 DEF Children
    <3>2. PICK u \in SourceId : watch[u].pid = q
      BY <3>1 DEF OneWatch
    <3>3. u # s
      BY <3>1, <3>2, <1>2
    <3> QED BY <3>2, <3>3, <1>5
  <2>2. ASSUME NEW u \in SourceId, NEW v \in SourceId, watch'[u] # NoWatch, watch'[u].pid = watch'[v].pid
        PROVE  u = v
    <3>1. u # s /\ watch[u] # NoWatch /\ watch'[u] = watch[u]
      BY <2>2, <1>5
    <3>2. watch[u].pid \in Pid
      BY <3>1 DEF WatchesKnow, Children
    <3>3. v # s
      BY <3>1, <3>2, <2>2, <1>5, WatchIsWatch
    <3> QED BY <3>1, <3>3, <2>2, <1>5 DEF OneWatch
  <2> QED BY <2>1, <2>2 DEF OneWatch
<1>11. LockIsOpkg'
  <2>1. \A q \in Pid : q # p => (q \in OpkgChildren' <=> q \in OpkgChildren)
    BY <1>5, <1>7 DEF OpkgChildren
  <2>2. p \notin OpkgChildren' /\ (p \in OpkgChildren <=> Unlocks(watch[s].target))
    BY <1>2, <1>7 DEF OpkgChildren
  <2>3. OpkgChildren \subseteq Pid /\ OpkgChildren' \subseteq Pid
    BY DEF OpkgChildren, Children
  <2>4. CASE Unlocks(watch[s].target)
    <3>1. OpkgChildren' = {}
      BY <2>1, <2>2, <2>3, <2>4 DEF LockIsOpkg
    <3> QED BY <3>1, <2>4 DEF LockIsOpkg
  <2>5. CASE ~Unlocks(watch[s].target)
    <3>1. \A q \in Pid : q \in OpkgChildren' <=> q \in OpkgChildren
      BY <2>1, <2>2, <2>5
    <3>2. OpkgChildren' = OpkgChildren
      BY <3>1, <2>3
    <3>3. m_locked' <=> m_locked
      BY <2>5
    <3> QED BY <3>2, <3>3 DEF LockIsOpkg
  <2> QED BY <2>4, <2>5
<1> QED BY <1>6, <1>8, <1>9, <1>10, <1>11

---------------------------------------------------------------------------
(* An object is destroyed; a child goes on.                                *)

\* The watch of the child of the object goes over to an anonymous function.
LEMMA HandOverKeepsTheBooks ==
    ASSUME TypeOK, ObjectsKnow, WatchesKnow, OneWatch, LockIsOpkg, ChildConstants,
           NEW o \in Wrapper, object[o] # NoObject,
           NEW target \in {"reaper", "unlocker"},
           target = "unlocker" <=> object[o].kind = "opkg",
           HandOver(o, target),
           m_locked' = m_locked, proc' = proc,
           object' = [object EXCEPT ![o] = NoObject]
    PROVE  /\ object' \in [Wrapper -> Object \cup {NoObject}]
           /\ watch' \in [SourceId -> Watch \cup {NoWatch}]
           /\ ObjectsKnow' /\ WatchesKnow' /\ OneWatch' /\ LockIsOpkg'
<1>1. /\ object \in [Wrapper -> Object \cup {NoObject}]
      /\ watch \in [SourceId -> Watch \cup {NoWatch}]
      /\ proc \in [Pid -> Process \cup {NoProcess}]
  BY DEF TypeOK
<1>2. object' \in [Wrapper -> Object \cup {NoObject}] /\ object'[o] = NoObject
      /\ \A u \in Wrapper : u # o => object'[u] = object[u]
  BY <1>1
<1>3. Children' = Children /\ OpkgChildren' = OpkgChildren /\ LockIsOpkg'
  BY DEF Children, OpkgChildren, LockIsOpkg
<1>4. target \notin Wrapper /\ NoPid \notin Pid /\ NoSource \notin SourceId
  BY DEF ChildConstants
<1>5. CASE object[o].m_sourceId = NoSource /\ watch' = watch
  <2>1. object[o].m_pid = NoPid
    BY <1>4, <1>5 DEF ObjectsKnow
  <2>2. ObjectsKnow'
    BY <1>2, <1>5 DEF ObjectsKnow
  <2>3. \A u \in SourceId : watch[u] # NoWatch => watch[u].target # o
    BY <2>1, <1>4 DEF WatchesKnow, Children
  <2>4. WatchesKnow'
    <3> SUFFICES ASSUME NEW u \in SourceId, watch[u] # NoWatch
                 PROVE  /\ watch[u].pid \in Children
                        /\ watch[u].target \in Wrapper =>
                               /\ object'[watch[u].target].m_sourceId = u
                               /\ object'[watch[u].target].m_pid = watch[u].pid
                        /\ proc[watch[u].pid].program = "opkg"
                               <=> \/ watch[u].target = "unlocker"
                                   \/ watch[u].target \in Wrapper /\ object'[watch[u].target].kind = "opkg"
      BY <1>3, <1>5 DEF WatchesKnow, Unlocks
    <3>1. watch[u].target \in Wrapper => object'[watch[u].target] = object[watch[u].target]
      BY <2>3, <1>2
    <3> QED BY <3>1 DEF WatchesKnow, Unlocks
  <2>5. OneWatch'
    BY <1>3, <1>5 DEF OneWatch
  <2> QED BY <2>2, <2>4, <2>5, <1>1, <1>2, <1>3, <1>5
<1>6. CASE object[o].m_pid = NoPid /\ object[o].m_sourceId \in SourceId
  BY <1>4, <1>6 DEF ObjectsKnow
<1>7. CASE /\ object[o].m_sourceId \in SourceId /\ object[o].m_pid \in Pid
           /\ \E s \in SourceId :
                  /\ watch[s] = NoWatch \/ s = object[o].m_sourceId
                  /\ watch' = [[watch EXCEPT ![object[o].m_sourceId] = NoWatch]
                                   EXCEPT ![s] = [pid |-> object[o].m_pid, target |-> target]]
  <2>1. object[o].m_pid # NoPid
    BY <1>4, <1>7
  <2>2. PICK p \in Pid, s0 \in SourceId :
            /\ object[o].m_pid = p /\ object[o].m_sourceId = s0
            /\ watch[s0] = [pid |-> p, target |-> o] /\ watch[s0] # NoWatch
            /\ p \in Children
            /\ (proc[p].program = "opkg" <=> target = "unlocker")
    <3>1. /\ object[o].m_pid \in Pid /\ object[o].m_sourceId \in SourceId
          /\ watch[object[o].m_sourceId] = [pid |-> object[o].m_pid, target |-> o]
          /\ watch[object[o].m_sourceId] # NoWatch /\ object[o].m_pid \in Children
          /\ proc[object[o].m_pid].program = "opkg" <=> object[o].kind = "opkg"
      BY <2>1, BelievedChildIsThere
    <3> QED BY <3>1
  <2>3. PICK s \in SourceId :
            /\ watch[s] = NoWatch \/ s = s0
            /\ watch' = [[watch EXCEPT ![s0] = NoWatch] EXCEPT ![s] = [pid |-> p, target |-> target]]
    BY <2>2, <1>7
  <2>4. [pid |-> p, target |-> target] \in Watch
    BY WatchIsWatch
  <2>5. /\ watch' \in [SourceId -> Watch \cup {NoWatch}]
        /\ watch'[s] = [pid |-> p, target |-> target]
        /\ s0 # s => watch'[s0] = NoWatch
        /\ \A u \in SourceId : u # s /\ u # s0 => watch'[u] = watch[u]
    BY <2>3, <2>4, <1>1
  <2>6. ObjectsKnow'
    <3> SUFFICES ASSUME NEW u \in Wrapper, object'[u] # NoObject
                 PROVE  IF object'[u].m_pid = NoPid
                        THEN object'[u].m_sourceId = NoSource /\ object'[u].answers = 1
                        ELSE /\ object'[u].m_sourceId \in SourceId
                             /\ watch'[object'[u].m_sourceId] = [pid |-> object'[u].m_pid, target |-> u]
                             /\ object'[u].answers = 0
      BY DEF ObjectsKnow
    <3>1. u # o /\ object'[u] = object[u]
      BY <1>2
    <3>2. CASE object[u].m_pid = NoPid
      BY <3>1, <3>2 DEF ObjectsKnow
    <3>3. CASE object[u].m_pid # NoPid
      <4>1. object[u].m_sourceId \in SourceId /\ object[u].answers = 0
            /\ watch[object[u].m_sourceId] = [pid |-> object[u].m_pid, target |-> u]
            /\ watch[object[u].m_sourceId] # NoWatch
        BY <3>3, BelievedChildIsThere
      <4>2. object[u].m_sourceId # s0
        BY <4>1, <3>1, <2>2
      <4>3. object[u].m_sourceId # s
        BY <4>1, <4>2, <2>3
      <4> QED BY <4>1, <4>2, <4>3, <3>1, <3>3, <2>5
    <3> QED BY <3>2, <3>3
  <2>7. WatchesKnow'
    <3> SUFFICES ASSUME NEW u \in SourceId, watch'[u] # NoWatch
                 PROVE  /\ watch'[u].pid \in Children
                        /\ watch'[u].target \in Wrapper =>
                               /\ object'[watch'[u].target].m_sourceId = u
                               /\ object'[watch'[u].target].m_pid = watch'[u].pid
                        /\ proc[watch'[u].pid].program = "opkg"
                               <=> \/ watch'[u].target = "unlocker"
                                   \/ watch'[u].target \in Wrapper /\ object'[watch'[u].target].kind = "opkg"
      BY <1>3 DEF WatchesKnow, Unlocks
    <3>1. CASE u = s
      BY <3>1, <2>2, <2>5, <1>4
    <3>2. CASE u # s
      <4>1. u # s0 /\ watch'[u] = watch[u]
        BY <3>2, <2>5
      <4>2. /\ watch[u].pid \in Children
            /\ watch[u].target \in Wrapper =>
                   /\ object[watch[u].target].m_sourceId = u
                   /\ object[watch[u].target].m_pid = watch[u].pid
            /\ proc[watch[u].pid].program = "opkg" <=> Unlocks(watch[u].target)
        BY <4>1 DEF WatchesKnow
      <4>3. watch[u].target # o
        BY <4>1, <4>2, <2>2
      <4>4. watch[u].target \in Wrapper => object'[watch[u].target] = object[watch[u].target]
        BY <4>3, <1>2
      <4> QED BY <4>1, <4>2, <4>4 DEF Unlocks
    <3> QED BY <3>1, <3>2
  <2>8. OneWatch'
    <3>1. ASSUME NEW q \in Children PROVE \E u \in SourceId : watch'[u].pid = q
      <4>1. CASE q = p
        BY <4>1, <2>5
      <4>2. CASE q # p
        <5>1. PICK u \in SourceId : watch[u].pid = q
          BY DEF OneWatch
        <5>2. u # s0 /\ q \in Pid
          BY <5>1, <4>2, <2>2 DEF Children
        <5>3. u # s
          BY <5>1, <5>2, <2>3, WatchIsWatch
        <5> QED BY <5>1, <5>2, <5>3, <2>5
      <4> QED BY <4>1, <4>2
    <3>2. ASSUME NEW u \in SourceId, NEW v \in SourceId, watch'[u] # NoWatch, watch'[u].pid = watch'[v].pid
          PROVE  u = v
      <4>1. \A t \in SourceId : t # s => watch'[t].pid # p
        <5> SUFFICES ASSUME NEW t \in SourceId, t # s, watch'[t].pid = p PROVE FALSE
          OBVIOUS
        <5>1. watch'[t] # NoWatch
          BY WatchIsWatch
        <5>2. t # s0 /\ watch[t] # NoWatch /\ watch[t].pid = p
          BY <5>1, <2>5
        <5> QED BY <5>2, <2>2 DEF OneWatch
      <4>2. CASE u = s \/ v = s
        BY <4>1, <4>2, <3>2, <2>5
      <4>3. CASE u # s /\ v # s
        <5>1. u # s0 /\ watch[u] # NoWatch /\ watch'[u] = watch[u]
          BY <4>3, <3>2, <2>5
        <5>2. watch[u].pid \in Pid
          BY <5>1 DEF WatchesKnow, Children
        <5>3. v # s0
          BY <5>1, <5>2, <4>3, <3>2, <2>5, WatchIsWatch
        <5> QED BY <5>1, <5>3, <4>3, <3>2, <2>5 DEF OneWatch
      <4> QED BY <4>2, <4>3
    <3> QED BY <3>1, <3>2, <1>3 DEF OneWatch
  <2> QED BY <2>5, <2>6, <2>7, <2>8, <1>2, <1>3
<1>8. \/ object[o].m_sourceId = NoSource /\ watch' = watch
      \/ object[o].m_sourceId \in SourceId /\ object[o].m_pid = NoPid
      \/ /\ object[o].m_sourceId \in SourceId /\ object[o].m_pid \in Pid
         /\ \E s \in SourceId :
                /\ watch[s] = NoWatch \/ s = object[o].m_sourceId
                /\ watch' = [[watch EXCEPT ![object[o].m_sourceId] = NoWatch]
                                 EXCEPT ![s] = [pid |-> object[o].m_pid, target |-> target]]
  BY HandOverKeepsAWatch
<1> QED BY <1>5, <1>6, <1>7, <1>8

---------------------------------------------------------------------------
(* The books, that is who watches what and m_locked, are left alone.       *)

\* A step that changes the output of an object, or how far a process is.
LEMMA QuietStepsKeepTheBooks ==
    ASSUME ObjectsKnow, WatchesKnow, OneWatch, LockIsOpkg, ChildConstants,
           watch' = watch, m_locked' = m_locked,
           \A o \in Wrapper :
               /\ object'[o] # NoObject => object[o] # NoObject
               /\ object'[o].m_pid = object[o].m_pid /\ object'[o].m_sourceId = object[o].m_sourceId
               /\ object'[o].answers = object[o].answers /\ object'[o].kind = object[o].kind,
           \A q \in Pid : /\ q \in Children' <=> q \in Children
                          /\ q \in Children => proc'[q].program = proc[q].program
    PROVE  ObjectsKnow' /\ WatchesKnow' /\ OneWatch' /\ LockIsOpkg'
<1>1. Children' = Children /\ Children \subseteq Pid
  BY DEF Children
<1>2. ObjectsKnow'
  BY DEF ObjectsKnow
<1>3. WatchesKnow'
  BY <1>1 DEF WatchesKnow, Unlocks
<1>4. OneWatch'
  BY <1>1 DEF OneWatch
<1>5. OpkgChildren' = OpkgChildren
  BY <1>1 DEF OpkgChildren
<1>6. LockIsOpkg'
  BY <1>5 DEF LockIsOpkg
<1> QED BY <1>2, <1>3, <1>4, <1>6

---------------------------------------------------------------------------
(* What else the steps preserve.                                           *)

\* The output of the objects that a step leaves alone is read as before.
LEMMA OutputStaysRead ==
    ASSUME TypeOK, ObjectsKnow, WatchesKnow, OutputRead, ChildConstants,
           \A u \in Wrapper : object'[u] = object[u] \/ OutputOf(u)',
           \A q \in OpkgChildren : Running(q)' => Running(q)
    PROVE  OutputRead'
<1> SUFFICES ASSUME NEW u \in Wrapper, object'[u] = object[u], object[u].kind = "opkg",
                    object[u].m_pid # NoPid, Running(object[u].m_pid)'
             PROVE  Running(object[u].m_pid)
  BY DEF OutputRead, OutputOf, Running
<1>1. object[u].m_pid \in OpkgChildren
  BY BelievedChildIsThere DEF OpkgChildren
<1>2. PICK q \in OpkgChildren : q = object[u].m_pid
  BY <1>1
<1> QED BY <1>2 DEF Running

\* A step that starts nothing in tmp/<id> and leaves no archive of another there.
LEMMA UnpackingStaysAlone ==
    ASSUME UnpacksAlone, ChildConstants,
           \A u \in Wrapper :
               /\ object'[u].kind = "package" => object[u].kind = "package"
               /\ object'[u].alone =>
                      /\ object[u].alone /\ object'[u].kind = object[u].kind
                      /\ object'[u].m_pid # NoPid => object'[u].m_pid = object[u].m_pid,
           \A q \in Pid : Running(q)' /\ proc'[q].program \in {"ar", "tar"}
               => Running(q) /\ proc[q].program \in {"ar", "tar"},
           archive' \in {archive, "none"}
    PROVE  UnpacksAlone'
BY DEF UnpacksAlone

\* An object that is made for its child.
LEMMA NewIs ==
    ASSUME ChildConstants, NEW k \in Kind
    PROVE  /\ New(k) \in Object /\ New(k).kind = k /\ New(k).out = "none"
           /\ New(k).unread = 0 /\ New(k).answers = 0 /\ New(k).alone = FALSE
<1> DEFINE Any == [kind : Kind \cup {"none"}, m_pid : Pid \cup {NoPid},
                   m_sourceId : SourceId \cup {NoSource}, m_targetItems : 0 .. 1,
                   out : {"none", "attached", "dropped"}, unread : 0 .. MaxLines,
                   answers : Nat, alone : BOOLEAN]
<1>1. 0 \in 0 .. MaxLines
  BY DEF ChildConstants
<1>2. NoObject \in Any
  BY <1>1 DEF NoObject
<1>3. \A x \in Any : [x EXCEPT !.kind = k] \in Object
  BY DEF Object
<1>4. New(k) \in Object
  BY <1>2, <1>3 DEF New
<1> QED BY <1>4 DEF New, NoObject

---------------------------------------------------------------------------
(* Every action keeps the invariant.                                       *)

\* AppInstallerUtility::install and remove.
LEMMA LaunchKeeps ==
    ASSUME IInv, ChildConstants, NEW o \in Wrapper, NEW root \in Root, NEW roots, Launch(o, root, roots)
    PROVE  IInv'
<1>1. TypeOK /\ ObjectsKnow /\ WatchesKnow /\ OneWatch /\ LockIsOpkg /\ OutputRead /\ UnpacksAlone
  BY DEF IInv
<1>2. object[o] = NoObject
  BY DEF Launch, Unborn
<1>3. archive' = archive /\ archive' \in Whose /\ crashes' = crashes /\ crashes' \in 0 .. MaxCrashes
  BY <1>1 DEF Launch, TypeOK
<1>4. lockFile' \in [Root -> Pid \cup {NoPid, "stale"}]
  BY <1>1 DEF Launch, RestoreUnlocked, Restored, TypeOK
<1>5. CASE UNCHANGED <<object, m_locked, proc, watch>>
  <2>1. TypeOK'
    BY <1>1, <1>3, <1>4, <1>5 DEF TypeOK
  <2>2. /\ ObjectsKnow' /\ WatchesKnow' /\ OneWatch' /\ LockIsOpkg' /\ OutputRead' /\ UnpacksAlone'
    BY <1>1, <1>3, <1>5 DEF ObjectsKnow, WatchesKnow, Unlocks, OneWatch, LockIsOpkg, Children,
       OpkgChildren, OutputRead, OutputOf, UnpacksAlone, Running
  <2> QED BY <2>1, <2>2 DEF IInv
<1>6. CASE /\ ~m_locked /\ m_locked' = TRUE
           /\ SpawnWatched(o, [New("opkg") EXCEPT !.out = "attached"], "opkg", root, proc, watch)
  <2>1. PICK new \in Object :
            /\ new = [New("opkg") EXCEPT !.out = "attached"]
            /\ new.kind = "opkg" /\ new.out = "attached" /\ new.unread = 0 /\ new.answers = 0
            /\ new.alone = FALSE
    <3>1. PICK x \in Object : /\ x = New("opkg") /\ x.kind = "opkg" /\ x.unread = 0
                             /\ x.answers = 0 /\ x.alone = FALSE
      BY NewIs DEF Kind
    <3> DEFINE y == [x EXCEPT !.out = "attached"]
    <3>2. /\ y \in Object /\ y.kind = x.kind /\ y.out = "attached" /\ y.unread = x.unread
          /\ y.answers = x.answers /\ y.alone = x.alone
      BY DEF Object
    <3>3. y = [New("opkg") EXCEPT !.out = "attached"]
      BY <3>1
    <3> HIDE DEF y
    <3> QED BY <3>1, <3>2, <3>3
  <2>2. SpawnWatched(o, new, "opkg", root, proc, watch)
    BY <1>6, <2>1 DEF SpawnWatched
  <2>3. PICK p \in Pid, s \in SourceId, born \in Object :
            /\ proc[p] = NoProcess /\ watch[s] = NoWatch
            /\ born.kind = "opkg" /\ born.m_pid = p /\ born.m_sourceId = s /\ born.out = "attached"
            /\ born.unread = 0 /\ born.answers = 0 /\ born.alone = FALSE
            /\ proc' = [proc EXCEPT ![p] = NewProcess("opkg", root)]
            /\ watch' = [watch EXCEPT ![s] = [pid |-> p, target |-> o]]
            /\ object' = [object EXCEPT ![o] = born]
    <3>1. /\ new.kind = "opkg" /\ new.out = "attached" /\ new.unread = 0 /\ new.answers = 0
          /\ new.alone = FALSE
      BY <2>1
    <3> QED BY <3>1, <2>2, SpawnTakesFreeIds
  <2>5. "opkg" \in Program /\ m_locked' = (m_locked \/ "opkg" = "opkg")
    BY <1>6 DEF Program
  <2>6. /\ object' \in [Wrapper -> Object \cup {NoObject}]
        /\ watch' \in [SourceId -> Watch \cup {NoWatch}]
        /\ proc' \in [Pid -> Process \cup {NoProcess}]
        /\ m_locked' \in BOOLEAN
        /\ ObjectsKnow' /\ WatchesKnow' /\ OneWatch' /\ LockIsOpkg'
    BY <1>1, <1>2, <1>6, <2>3, <2>5, BirthKeepsTheBooks
  <2>7. /\ object'[o] = born /\ \A u \in Wrapper : u # o => object'[u] = object[u]
        /\ \A q \in Pid : q # p => proc'[q] = proc[q]
        /\ proc'[p].program = "opkg" /\ p # NoPid
    BY <1>1, <2>3 DEF TypeOK, NewProcess, ChildConstants
  <2>8. OutputRead'
    <3>1. OutputOf(o)'
      BY <2>3, <2>7 DEF OutputOf
    <3>2. \A q \in OpkgChildren : Running(q)' => Running(q)
      BY <2>3, <2>7 DEF OpkgChildren, Children, Running
    <3> QED BY <1>1, <2>7, <3>1, <3>2, OutputStaysRead
  <2>9. UnpacksAlone'
    <3>1. \A u \in Wrapper :
              /\ object'[u].kind = "package" => object[u].kind = "package"
              /\ object'[u].alone =>
                     /\ object[u].alone /\ object'[u].kind = object[u].kind
                     /\ object'[u].m_pid # NoPid => object'[u].m_pid = object[u].m_pid
      BY <2>3, <2>7
    <3>2. \A q \in Pid : Running(q)' /\ proc'[q].program \in {"ar", "tar"}
              => Running(q) /\ proc[q].program \in {"ar", "tar"}
      BY <2>7 DEF Running
    <3> QED BY <1>1, <1>3, <3>1, <3>2, UnpackingStaysAlone
  <2> QED BY <1>3, <1>4, <2>6, <2>8, <2>9 DEF IInv, TypeOK
<1> QED BY <1>5, <1>6 DEF Launch

\* Jailer::remove.
LEMMA JailRemoveKeeps ==
    ASSUME IInv, ChildConstants, NEW o \in Wrapper, JailRemove(o)
    PROVE  IInv'
<1>1. TypeOK /\ ObjectsKnow /\ WatchesKnow /\ OneWatch /\ LockIsOpkg /\ OutputRead /\ UnpacksAlone
  BY DEF IInv
<1>2. object[o] = NoObject
  BY DEF JailRemove, Unborn
<1>3. /\ archive' = archive /\ archive' \in Whose /\ crashes' \in 0 .. MaxCrashes
      /\ lockFile' \in [Root -> Pid \cup {NoPid, "stale"}] /\ m_locked' = m_locked
  BY <1>1 DEF JailRemove, TypeOK
<1>4. PICK new \in Object :
          /\ new = New("jailer") /\ new.kind = "jailer" /\ new.out = "none" /\ new.unread = 0
          /\ new.answers = 0 /\ new.alone = FALSE
  BY NewIs DEF Kind
<1>5. SpawnWatched(o, new, "jailer", DevRoot, proc, watch)
  BY <1>4 DEF JailRemove, SpawnWatched
<1>6. PICK p \in Pid, s \in SourceId, born \in Object :
          /\ proc[p] = NoProcess /\ watch[s] = NoWatch
          /\ born.kind = "jailer" /\ born.m_pid = p /\ born.m_sourceId = s /\ born.out = "none"
          /\ born.unread = 0 /\ born.answers = 0 /\ born.alone = FALSE
          /\ proc' = [proc EXCEPT ![p] = NewProcess("jailer", DevRoot)]
          /\ watch' = [watch EXCEPT ![s] = [pid |-> p, target |-> o]]
          /\ object' = [object EXCEPT ![o] = born]
  BY <1>4, <1>5, SpawnTakesFreeIds
<1>8. "jailer" \in Program /\ DevRoot \in Root /\ m_locked' = (m_locked \/ "jailer" = "opkg")
  BY <1>1, <1>3 DEF Program, ChildConstants, TypeOK
<1>9. /\ object' \in [Wrapper -> Object \cup {NoObject}]
      /\ watch' \in [SourceId -> Watch \cup {NoWatch}]
      /\ proc' \in [Pid -> Process \cup {NoProcess}]
      /\ m_locked' \in BOOLEAN
      /\ ObjectsKnow' /\ WatchesKnow' /\ OneWatch' /\ LockIsOpkg'
  BY <1>1, <1>2, <1>6, <1>8, BirthKeepsTheBooks
<1>10. /\ object'[o] = born /\ \A u \in Wrapper : u # o => object'[u] = object[u]
       /\ \A q \in Pid : q # p => proc'[q] = proc[q]
       /\ proc'[p].program = "jailer" /\ p # NoPid
  BY <1>1, <1>6 DEF TypeOK, NewProcess, ChildConstants
<1>11. OutputRead'
  <2>1. OutputOf(o)'
    BY <1>6, <1>10 DEF OutputOf
  <2>2. \A q \in OpkgChildren : Running(q)' => Running(q)
    BY <1>6, <1>10 DEF OpkgChildren, Children, Running
  <2> QED BY <1>1, <1>10, <2>1, <2>2, OutputStaysRead
<1>12. UnpacksAlone'
  <2>1. \A u \in Wrapper :
            /\ object'[u].kind = "package" => object[u].kind = "package"
            /\ object'[u].alone =>
                   /\ object[u].alone /\ object'[u].kind = object[u].kind
                   /\ object'[u].m_pid # NoPid => object'[u].m_pid = object[u].m_pid
    BY <1>6, <1>10
  <2>2. \A q \in Pid : Running(q)' /\ proc'[q].program \in {"ar", "tar"}
            => Running(q) /\ proc[q].program \in {"ar", "tar"}
    BY <1>10 DEF Running
  <2> QED BY <1>1, <1>3, <2>1, <2>2, UnpackingStaysAlone
<1> QED BY <1>3, <1>9, <1>11, <1>12 DEF IInv, TypeOK

\* IpkParseStep::proceed: ar is started.
LEMMA ExtractKeeps ==
    ASSUME IInv, ChildConstants, NEW o \in Wrapper, Extract(o)
    PROVE  IInv'
<1>1. TypeOK /\ ObjectsKnow /\ WatchesKnow /\ OneWatch /\ LockIsOpkg /\ OutputRead /\ UnpacksAlone
  BY DEF IInv
<1>2. object[o] = NoObject /\ \A u \in Wrapper : object[u].kind # "package"
  BY DEF Extract, Unborn, TmpFree
<1>3. /\ archive' = "none" /\ archive' \in Whose /\ crashes' \in 0 .. MaxCrashes
      /\ lockFile' \in [Root -> Pid \cup {NoPid, "stale"}] /\ m_locked' = m_locked
  BY <1>1 DEF Extract, OldArchive, Whose, TypeOK
<1>4. PICK new \in Object :
          /\ new = [New("package") EXCEPT !.m_targetItems = 1, !.alone = ~TmpInUse]
          /\ new.kind = "package" /\ new.out = "none" /\ new.unread = 0 /\ new.answers = 0
          /\ new.alone = ~TmpInUse
  <2>1. PICK b \in BOOLEAN : b = ~TmpInUse
    OBVIOUS
  <2>2. PICK x \in Object : /\ x = New("package") /\ x.kind = "package" /\ x.out = "none"
                           /\ x.unread = 0 /\ x.answers = 0
    BY NewIs DEF Kind
  <2> DEFINE y == [x EXCEPT !.m_targetItems = 1, !.alone = b]
  <2>3. /\ y \in Object /\ y.kind = x.kind /\ y.out = x.out /\ y.unread = x.unread
        /\ y.answers = x.answers /\ y.alone = b
    <3>1. 1 \in 0 .. 1
      OBVIOUS
    <3> QED BY <3>1 DEF Object
  <2>4. y = [New("package") EXCEPT !.m_targetItems = 1, !.alone = ~TmpInUse]
    BY <2>1, <2>2
  <2> HIDE DEF y
  <2>5. /\ y \in Object /\ y.kind = "package" /\ y.out = "none" /\ y.unread = 0 /\ y.answers = 0
        /\ y.alone = ~TmpInUse
    BY <2>1, <2>2, <2>3
  <2> QED BY <2>4, <2>5, Zenon
<1>5. SpawnWatched(o, new, "ar", DevRoot, proc, watch)
  BY <1>4 DEF Extract, SpawnWatched
<1>6. PICK p \in Pid, s \in SourceId, born \in Object :
          /\ proc[p] = NoProcess /\ watch[s] = NoWatch
          /\ born.kind = "package" /\ born.m_pid = p /\ born.m_sourceId = s /\ born.out = "none"
          /\ born.unread = 0 /\ born.answers = 0 /\ (born.alone <=> new.alone)
          /\ proc' = [proc EXCEPT ![p] = NewProcess("ar", DevRoot)]
          /\ watch' = [watch EXCEPT ![s] = [pid |-> p, target |-> o]]
          /\ object' = [object EXCEPT ![o] = born]
  <2>1. /\ new.kind = "package" /\ new.out = "none" /\ new.unread = 0 /\ new.answers = 0
    BY <1>4
  <2> QED BY <2>1, <1>5, SpawnTakesFreeIds
<1>7. born.alone <=> ~TmpInUse
  BY <1>4, <1>6
<1>8. "ar" \in Program /\ DevRoot \in Root /\ m_locked' = (m_locked \/ "ar" = "opkg")
  BY <1>1, <1>3 DEF Program, ChildConstants, TypeOK
<1>9. /\ object' \in [Wrapper -> Object \cup {NoObject}]
      /\ watch' \in [SourceId -> Watch \cup {NoWatch}]
      /\ proc' \in [Pid -> Process \cup {NoProcess}]
      /\ m_locked' \in BOOLEAN
      /\ ObjectsKnow' /\ WatchesKnow' /\ OneWatch' /\ LockIsOpkg'
  BY <1>1, <1>2, <1>6, <1>8, BirthKeepsTheBooks
<1>10. /\ object'[o] = born /\ \A u \in Wrapper : u # o => object'[u] = object[u]
       /\ \A q \in Pid : q # p => proc'[q] = proc[q]
  BY <1>1, <1>6 DEF TypeOK
<1>11. OutputRead'
  <2>1. OutputOf(o)'
    BY <1>6, <1>10 DEF OutputOf
  <2>2. \A q \in OpkgChildren : Running(q)' => Running(q)
    BY <1>6, <1>10 DEF OpkgChildren, Children, Running
  <2> QED BY <1>1, <1>10, <2>1, <2>2, OutputStaysRead
<1>12. UnpacksAlone'
  <2>1. \A u \in Wrapper : u # o => object'[u].kind # "package" /\ ~object'[u].alone
    BY <1>1, <1>2, <1>10 DEF UnpacksAlone
  <2>2. ~TmpInUse => \A q \in Pid : Running(q)' /\ proc'[q].program \in {"ar", "tar"} => q = p
    BY <1>10 DEF TmpInUse, Running
  <2>3. \A u, v \in Wrapper : object'[u].kind = "package" /\ object'[v].kind = "package" => u = v
    BY <2>1
  <2>4. ASSUME NEW u \in Wrapper, object'[u].alone
        PROVE  /\ object'[u].kind = "package"
               /\ archive' # "other"
               /\ \A q \in Pid : Running(q)' /\ proc'[q].program \in {"ar", "tar"}
                                => q = object'[u].m_pid
    <3>1. u = o
      BY <2>1, <2>4
    <3>2. ~TmpInUse
      BY <3>1, <2>4, <1>7, <1>10
    <3> QED BY <3>1, <3>2, <2>2, <1>3, <1>6, <1>10
  <2> QED BY <2>3, <2>4 DEF UnpacksAlone
<1> QED BY <1>3, <1>9, <1>11, <1>12 DEF IInv, TypeOK

\* ar has ended well, tar follows it.
LEMMA UnpackNextKeeps ==
    ASSUME IInv, ChildConstants, NEW o \in Wrapper, NEW s0 \in SourceId, UnpackNext(o, s0)
    PROVE  IInv'
<1>1. TypeOK /\ ObjectsKnow /\ WatchesKnow /\ OneWatch /\ LockIsOpkg /\ OutputRead /\ UnpacksAlone
  BY DEF IInv
<1>2. /\ archive' = archive /\ archive' \in Whose /\ crashes' \in 0 .. MaxCrashes
      /\ lockFile' \in [Root -> Pid \cup {NoPid, "stale"}] /\ m_locked' = m_locked
  BY <1>1 DEF UnpackNext, TypeOK
<1>3. object[o].kind = "package" /\ Ready(s0, o) /\ object[o].m_targetItems > 0
  BY DEF UnpackNext
<1>4. object[o] \in Object /\ watch[s0] # NoWatch /\ watch[s0].target = o /\ Exited(watch[s0].pid)
  BY <1>1, <1>3, ThereIsAnObject DEF Ready, Kind
<1>5. object[o].m_pid = watch[s0].pid /\ object[o].m_sourceId = s0 /\ watch[s0].pid \in Children
  BY <1>1, <1>4 DEF WatchesKnow
<1>6. PICK p0 \in Pid : p0 = watch[s0].pid /\ p0 # NoPid
  BY <1>5 DEF Children, ChildConstants
<1>7. object[o].answers = 0
  BY <1>1, <1>5, <1>6, BelievedChildIsThere
<1>8. PICK p \in Pid, s \in SourceId, next \in Object :
          /\ Reaped(s0)[p] = NoProcess /\ Fired(s0)[s] = NoWatch
          /\ next.kind = "package" /\ next.m_pid = p /\ next.m_sourceId = s /\ next.out = object[o].out
          /\ next.unread = object[o].unread /\ next.answers = 0 /\ (next.alone <=> object[o].alone)
          /\ proc' = [Reaped(s0) EXCEPT ![p] = NewProcess("tar", DevRoot)]
          /\ watch' = [Fired(s0) EXCEPT ![s] = [pid |-> p, target |-> o]]
          /\ object' = [object EXCEPT ![o] = next]
  <2> DEFINE new == [object[o] EXCEPT !.m_targetItems = @ - 1]
             p == Fresh(FreePids(Reaped(s0)))
             s == Fresh(FreeSources(Fired(s0)))
             next == [new EXCEPT !.m_pid = p, !.m_sourceId = s]
  <2>1. SpawnWatched(o, new, "tar", DevRoot, Reaped(s0), Fired(s0))
    BY DEF UnpackNext
  <2>2. p \in FreePids(Reaped(s0)) /\ s \in FreeSources(Fired(s0))
    BY <2>1, FreshIsOneOf DEF SpawnWatched
  <2>3. p \in Pid /\ s \in SourceId /\ Reaped(s0)[p] = NoProcess /\ Fired(s0)[s] = NoWatch
    BY <2>2 DEF FreePids, FreeSources
  <2>4. /\ proc' = [Reaped(s0) EXCEPT ![p] = NewProcess("tar", DevRoot)]
        /\ watch' = [Fired(s0) EXCEPT ![s] = [pid |-> p, target |-> o]]
        /\ object' = [object EXCEPT ![o] = next]
    BY <2>1 DEF SpawnWatched
  <2> HIDE DEF p, s
  <2>5. object[o].m_targetItems - 1 \in 0 .. 1
    BY <1>3, <1>4 DEF Object
  <2>6. /\ new \in Object /\ new.kind = object[o].kind /\ new.out = object[o].out
        /\ new.unread = object[o].unread /\ new.answers = object[o].answers
        /\ new.alone <=> object[o].alone
    BY <1>4, <2>5 DEF Object
  <2> HIDE DEF new
  <2>7. /\ next \in Object /\ next.kind = new.kind /\ next.m_pid = p /\ next.m_sourceId = s
        /\ next.out = new.out /\ next.unread = new.unread /\ next.answers = new.answers
        /\ next.alone <=> new.alone
    BY <2>3, <2>6 DEF Object
  <2> HIDE DEF next
  <2> QED BY <1>3, <1>7, <2>3, <2>4, <2>6, <2>7
<1>9. /\ object' \in [Wrapper -> Object \cup {NoObject}]
      /\ watch' \in [SourceId -> Watch \cup {NoWatch}]
      /\ proc' \in [Pid -> Process \cup {NoProcess}]
      /\ m_locked' \in BOOLEAN
      /\ ObjectsKnow' /\ WatchesKnow' /\ OneWatch' /\ LockIsOpkg'
  BY <1>1, <1>2, <1>3, <1>8, NextChildKeepsTheBooks
<1>10. /\ object'[o] = next /\ \A u \in Wrapper : u # o => object'[u] = object[u]
       /\ \A q \in Pid : q # p => proc'[q] = IF q = p0 THEN NoProcess ELSE proc[q]
       /\ p = p0 \/ proc[p] = NoProcess
  BY <1>1, <1>6, <1>8 DEF TypeOK, Reaped
<1>11. OutputRead'
  <2>1. OutputOf(o)'
    BY <1>1, <1>3, <1>8, <1>10 DEF OutputOf, OutputRead
  <2>2. p0 \notin OpkgChildren
    BY <1>1, <1>3, <1>5, <1>6, BelievedChildIsThere DEF OpkgChildren
  <2>3. \A q \in OpkgChildren : Running(q)' => Running(q)
    BY <2>2, <1>10 DEF OpkgChildren, Children, Running
  <2> QED BY <1>1, <1>10, <2>1, <2>3, OutputStaysRead
<1>12. UnpacksAlone'
  <2>1. \A u \in Wrapper : object'[u].kind = object[u].kind /\ (object'[u].alone <=> object[u].alone)
    BY <1>3, <1>8, <1>10
  <2>2. \A u, v \in Wrapper : object'[u].kind = "package" /\ object'[v].kind = "package" => u = v
    BY <1>1, <2>1 DEF UnpacksAlone
  <2>3. ASSUME NEW u \in Wrapper, object'[u].alone
        PROVE  /\ object'[u].kind = "package"
               /\ archive' # "other"
               /\ \A q \in Pid : Running(q)' /\ proc'[q].program \in {"ar", "tar"}
                                => q = object'[u].m_pid
    <3>1. object[u].alone /\ object[u].kind = "package"
      BY <1>1, <2>1, <2>3 DEF UnpacksAlone
    <3>2. u = o
      BY <3>1, <1>1, <1>3 DEF UnpacksAlone
    <3>3. /\ archive # "other"
          /\ \A q \in Pid : Running(q) /\ proc[q].program \in {"ar", "tar"} => q = p0
      BY <3>1, <3>2, <1>1, <1>5, <1>6 DEF UnpacksAlone
    <3>4. \A q \in Pid : Running(q)' /\ proc'[q].program \in {"ar", "tar"} => q = p
      BY <3>3, <1>10 DEF Running, NoProcess
    <3> QED BY <3>1, <3>2, <3>3, <3>4, <1>2, <1>3, <1>8, <1>10
  <2> QED BY <2>2, <2>3 DEF UnpacksAlone
<1> QED BY <1>2, <1>9, <1>11, <1>12 DEF IInv, TypeOK

\* The four handlers of a child watch that leave the child's owner without a child, or have none.
LEMMA ReapingKeeps ==
    ASSUME IInv, ChildConstants, NEW s \in SourceId,
           \/ \E o \in Wrapper : ExtractEnds(o, s) \/ JailRemoved(o, s) \/ ChildComplete(o, s)
           \/ ReaperFires(s) \/ UnlockerFires(s)
    PROVE  IInv'
<1>1. TypeOK /\ ObjectsKnow /\ WatchesKnow /\ OneWatch /\ LockIsOpkg /\ OutputRead /\ UnpacksAlone
  BY DEF IInv
<1>2. /\ archive' \in {archive, "none"} /\ archive' \in Whose /\ crashes' \in 0 .. MaxCrashes
      /\ lockFile' \in [Root -> Pid \cup {NoPid, "stale"}]
  BY <1>1 DEF ExtractEnds, JailRemoved, ChildComplete, ReaperFires, UnlockerFires, RemoveTmp, Whose, TypeOK
<1>3. watch[s] # NoWatch /\ Exited(watch[s].pid) /\ proc' = Reaped(s) /\ watch' = Fired(s)
  BY DEF ExtractEnds, JailRemoved, ChildComplete, ReaperFires, UnlockerFires, Ready
<1>4. /\ \/ watch[s].target \in Wrapper /\ Answered(watch[s].target)
         \/ watch[s].target \notin Wrapper /\ object' = object
      /\ m_locked' = (m_locked /\ ~Unlocks(watch[s].target))
  <2>1. ASSUME NEW o \in Wrapper, ExtractEnds(o, s) \/ JailRemoved(o, s)
        PROVE  watch[s].target = o /\ Answered(o) /\ m_locked' = m_locked /\ ~Unlocks(o)
    BY <2>1 DEF ExtractEnds, JailRemoved, Ready, Unlocks, ChildConstants
  <2>2. ASSUME NEW o \in Wrapper, ChildComplete(o, s)
        PROVE  watch[s].target = o /\ Answered(o) /\ m_locked' = FALSE /\ Unlocks(o)
    BY <2>2 DEF ChildComplete, ForgetChild, Ready, Unlocks
  <2>3. CASE ReaperFires(s)
    BY <2>3, <1>1 DEF ReaperFires, Ready, Unlocks, ChildConstants, TypeOK
  <2>4. CASE UnlockerFires(s)
    BY <2>4, <1>1 DEF UnlockerFires, Ready, Unlocks, ChildConstants, TypeOK
  <2>5. m_locked \in BOOLEAN
    BY <1>1 DEF TypeOK
  <2> QED BY <2>1, <2>2, <2>3, <2>4, <2>5
<1>5. /\ object' \in [Wrapper -> Object \cup {NoObject}]
      /\ watch' \in [SourceId -> Watch \cup {NoWatch}]
      /\ proc' \in [Pid -> Process \cup {NoProcess}]
      /\ m_locked' \in BOOLEAN
      /\ ObjectsKnow' /\ WatchesKnow' /\ OneWatch' /\ LockIsOpkg'
  BY <1>1, <1>3, <1>4, ReapingKeepsTheBooks
<1>6. \A q \in Pid : proc'[q] = proc[q] \/ proc'[q] = NoProcess
  BY <1>1, <1>3 DEF TypeOK, Reaped
<1>7. \A q \in Pid : Running(q)' => Running(q) /\ proc'[q].program = proc[q].program
  BY <1>6 DEF Running, NoProcess
<1>8. \A o \in Wrapper :
          \/ object'[o] = object[o]
          \/ /\ object'[o].m_pid = NoPid /\ object'[o].kind = object[o].kind
             /\ object'[o].out = object[o].out /\ object'[o].unread = object[o].unread
             /\ (object'[o].alone <=> object[o].alone)
             /\ object[o].kind = "opkg" => object[o].out # "attached"
  <2>1. CASE watch[s].target \notin Wrapper
    BY <2>1, <1>4
  <2>2. CASE watch[s].target \in Wrapper
    <3>1. PICK u \in Wrapper : u = watch[s].target
      BY <2>2
    <3>2. object[u].m_pid = watch[s].pid /\ watch[s].pid \in Pid
      BY <3>1, <1>1, <1>3 DEF WatchesKnow, Children
    <3>3. object[u] \in Object
      <4>1. object[u].m_pid # NoPid
        BY <3>2 DEF ChildConstants
      <4> QED BY <4>1, <1>1, BelievedChildIsThere
    <3>4. object'[u] = [object[u] EXCEPT !.m_pid = NoPid, !.m_sourceId = NoSource, !.answers = @ + 1]
      BY <3>1, <1>1, <1>4 DEF Answered, TypeOK
    <3>5. /\ object'[u].m_pid = NoPid /\ object'[u].kind = object[u].kind
          /\ object'[u].out = object[u].out /\ object'[u].unread = object[u].unread
          /\ (object'[u].alone <=> object[u].alone)
      BY <3>3, <3>4 DEF Object
    <3>6. object[u].kind = "opkg" => object[u].out # "attached"
      <4> SUFFICES ASSUME object[u].kind = "opkg", object[u].out = "attached" PROVE FALSE
        OBVIOUS
      <4>1. ChildComplete(u, s)
        BY <3>1 DEF ExtractEnds, JailRemoved, ChildComplete, ReaperFires, UnlockerFires, Ready,
           ChildConstants
      <4>2. ~Readable(u)
        BY <4>1 DEF ChildComplete, Preempted
      <4>3. Running(object[u].m_pid)
        BY <4>2 DEF Readable
      <4> QED BY <4>3, <3>2, <1>3 DEF Running, Exited
    <3>7. \A o \in Wrapper : o # u => object'[o] = object[o]
      BY <3>1, <1>1, <1>4 DEF Answered, TypeOK
    <3> QED BY <3>5, <3>6, <3>7
  <2> QED BY <2>1, <2>2
<1>9. OutputRead'
  <2>1. \A o \in Wrapper : object'[o] = object[o] \/ OutputOf(o)'
    BY <1>1, <1>8 DEF OutputRead, OutputOf
  <2>2. \A q \in OpkgChildren : Running(q)' => Running(q)
    BY <1>7 DEF OpkgChildren, Children
  <2> QED BY <1>1, <2>1, <2>2, OutputStaysRead
<1>10. UnpacksAlone'
  <2>1. \A u \in Wrapper :
            /\ object'[u].kind = "package" => object[u].kind = "package"
            /\ object'[u].alone =>
                   /\ object[u].alone /\ object'[u].kind = object[u].kind
                   /\ object'[u].m_pid # NoPid => object'[u].m_pid = object[u].m_pid
    BY <1>8
  <2>2. \A q \in Pid : Running(q)' /\ proc'[q].program \in {"ar", "tar"}
            => Running(q) /\ proc[q].program \in {"ar", "tar"}
    BY <1>7
  <2> QED BY <1>1, <1>2, <2>1, <2>2, UnpackingStaysAlone
<1> QED BY <1>2, <1>5, <1>9, <1>10 DEF IInv, TypeOK

\* An object goes with the step or the item it is a member of.
LEMMA DestroyKeeps ==
    ASSUME IInv, ChildConstants, NEW o \in Wrapper, Destroy(o)
    PROVE  IInv'
<1>1. TypeOK /\ ObjectsKnow /\ WatchesKnow /\ OneWatch /\ LockIsOpkg /\ OutputRead /\ UnpacksAlone
  BY DEF IInv
<1>2. /\ archive' = IF object[o].kind = "package" THEN Disowned ELSE archive
      /\ archive' \in Whose /\ crashes' \in 0 .. MaxCrashes
      /\ lockFile' \in [Root -> Pid \cup {NoPid, "stale"}]
      /\ m_locked' = m_locked /\ m_locked \in BOOLEAN /\ proc' = proc
      /\ proc \in [Pid -> Process \cup {NoProcess}]
  BY <1>1 DEF Destroy, Disowned, Whose, TypeOK
<1>3. object[o] # NoObject /\ object' = [object EXCEPT ![o] = NoObject]
  BY DEF Destroy
<1>4. PICK target \in {"reaper", "unlocker"} :
          HandOver(o, target) /\ (target = "unlocker" <=> object[o].kind = "opkg")
  BY DEF Destroy, Clear
<1>5. /\ object' \in [Wrapper -> Object \cup {NoObject}]
      /\ watch' \in [SourceId -> Watch \cup {NoWatch}]
      /\ ObjectsKnow' /\ WatchesKnow' /\ OneWatch' /\ LockIsOpkg'
  BY <1>1, <1>2, <1>3, <1>4, HandOverKeepsTheBooks
<1>6. object'[o] = NoObject /\ \A u \in Wrapper : u # o => object'[u] = object[u]
  BY <1>1, <1>3 DEF TypeOK
<1>7. OutputRead'
  <2>1. OutputOf(o)'
    BY <1>6 DEF OutputOf, NoObject
  <2>2. \A q \in OpkgChildren : Running(q)' => Running(q)
    BY <1>2 DEF Running
  <2> QED BY <1>1, <1>6, <2>1, <2>2, OutputStaysRead
<1>8. UnpacksAlone'
  <2>1. \A u \in Wrapper :
            /\ object'[u].kind = "package" => object[u].kind = "package"
            /\ object'[u].alone =>
                   /\ object[u].alone /\ object'[u].kind = object[u].kind
                   /\ object'[u].m_pid # NoPid => object'[u].m_pid = object[u].m_pid
    BY <1>6 DEF NoObject
  <2>2. CASE object[o].kind = "package"
    <3>1. \A u \in Wrapper : object'[u].kind # "package" /\ ~object'[u].alone
      BY <2>2, <1>1, <1>6 DEF UnpacksAlone, NoObject
    <3> QED BY <3>1 DEF UnpacksAlone
  <2>3. CASE object[o].kind # "package"
    <3>1. \A q \in Pid : Running(q)' /\ proc'[q].program \in {"ar", "tar"}
              => Running(q) /\ proc[q].program \in {"ar", "tar"}
      BY <1>2 DEF Running
    <3> QED BY <1>1, <1>2, <2>1, <2>3, <3>1, UnpackingStaysAlone
  <2> QED BY <2>2, <2>3
<1> QED BY <1>2, <1>5, <1>7, <1>8 DEF IInv, TypeOK

\* What is read of the output of opkg, and what it writes.
LEMMA OutputKeeps ==
    ASSUME IInv, ChildConstants, NEW o \in Wrapper,
           ChildProgress(o) \/ ChildOutputEnds(o) \/ OpkgWrites(o)
    PROVE  IInv'
<1>1. TypeOK /\ ObjectsKnow /\ WatchesKnow /\ OneWatch /\ LockIsOpkg /\ OutputRead /\ UnpacksAlone
  BY DEF IInv
<1>2. UNCHANGED <<m_locked, watch, proc, archive, lockFile, crashes>> /\ object[o].out = "attached"
  BY DEF ChildProgress, ChildOutputEnds, OpkgWrites, Readable
<1>3. /\ object[o] \in Object /\ object[o] # NoObject
      /\ object[o].unread \in 0 .. MaxLines
      /\ object[o].kind = "opkg" /\ object[o].m_pid # NoPid
  <2>1. object[o] \in Object /\ object[o].unread \in 0 .. MaxLines
    BY <1>1, <1>2, ThereIsAnObject
  <2> QED BY <2>1, <1>1, <1>2, ObjectChanges DEF OutputRead, OutputOf
<1>4. PICK x \in Object :
          /\ object' = [object EXCEPT ![o] = x]
          /\ x.m_pid = object[o].m_pid /\ x.m_sourceId = object[o].m_sourceId
          /\ x.answers = object[o].answers /\ x.kind = object[o].kind
          /\ (x.alone <=> object[o].alone)
          /\ x.out # "attached" => x.unread = 0 /\ ~Running(object[o].m_pid)
  <2>1. CASE ChildProgress(o) \/ OpkgWrites(o)
    <3>1. PICK n \in 0 .. MaxLines : object' = [object EXCEPT ![o].unread = n]
      <4>1. CASE ChildProgress(o)
        <5>1. object[o].unread - 1 \in 0 .. MaxLines
          BY <4>1, <1>3 DEF ChildProgress, ChildConstants
        <5> QED BY <5>1, <4>1 DEF ChildProgress
      <4>2. CASE OpkgWrites(o)
        <5>1. object[o].unread + 1 \in 0 .. MaxLines
          BY <4>2, <1>3 DEF OpkgWrites, ChildConstants
        <5> QED BY <5>1, <4>2 DEF OpkgWrites
      <4> QED BY <2>1, <4>1, <4>2
    <3> DEFINE x == [object[o] EXCEPT !.unread = n]
    <3>2. object' = [object EXCEPT ![o] = x]
      BY <3>1
    <3>3. /\ x \in Object /\ x.m_pid = object[o].m_pid /\ x.m_sourceId = object[o].m_sourceId
          /\ x.answers = object[o].answers /\ x.kind = object[o].kind /\ x.out = object[o].out
          /\ (x.alone <=> object[o].alone)
      BY <1>3 DEF Object
    <3> HIDE DEF x
    <3> QED BY <3>2, <3>3, <1>2
  <2>2. CASE ChildOutputEnds(o)
    <3> DEFINE x == [object[o] EXCEPT !.out = "dropped"]
    <3>1. object' = [object EXCEPT ![o] = x]
      BY <2>2 DEF ChildOutputEnds, AtEnd
    <3>2. /\ x \in Object /\ x.m_pid = object[o].m_pid /\ x.m_sourceId = object[o].m_sourceId
          /\ x.answers = object[o].answers /\ x.kind = object[o].kind
          /\ x.unread = object[o].unread /\ (x.alone <=> object[o].alone)
      BY <1>3 DEF Object
    <3>3. object[o].unread = 0 /\ ~Running(object[o].m_pid)
      BY <2>2 DEF ChildOutputEnds, Readable
    <3> HIDE DEF x
    <3> QED BY <3>1, <3>2, <3>3
  <2> QED BY <2>1, <2>2
<1>5. object'[o] = x /\ \A u \in Wrapper : u # o => object'[u] = object[u]
  BY <1>1, <1>4 DEF TypeOK
<1>6. TypeOK'
  BY <1>1, <1>2, <1>4 DEF TypeOK
<1>7. ObjectsKnow' /\ WatchesKnow' /\ OneWatch' /\ LockIsOpkg'
  <2>1. \A u \in Wrapper :
            /\ object'[u] # NoObject => object[u] # NoObject
            /\ object'[u].m_pid = object[u].m_pid /\ object'[u].m_sourceId = object[u].m_sourceId
            /\ object'[u].answers = object[u].answers /\ object'[u].kind = object[u].kind
    BY <1>3, <1>4, <1>5
  <2>2. \A q \in Pid : /\ q \in Children' <=> q \in Children
                       /\ q \in Children => proc'[q].program = proc[q].program
    BY <1>2 DEF Children
  <2>3. watch' = watch /\ m_locked' = m_locked
    BY <1>2
  <2> QED BY <1>1, <2>1, <2>2, <2>3, QuietStepsKeepTheBooks
<1>8. OutputRead'
  <2>1. OutputOf(o)'
    BY <1>2, <1>3, <1>4, <1>5 DEF OutputOf, Running
  <2>2. \A q \in OpkgChildren : Running(q)' => Running(q)
    BY <1>2 DEF Running
  <2> QED BY <1>1, <1>5, <2>1, <2>2, OutputStaysRead
<1>9. UnpacksAlone'
  <2>1. \A u \in Wrapper :
            /\ object'[u].kind = "package" => object[u].kind = "package"
            /\ object'[u].alone =>
                   /\ object[u].alone /\ object'[u].kind = object[u].kind
                   /\ object'[u].m_pid # NoPid => object'[u].m_pid = object[u].m_pid
    BY <1>4, <1>5
  <2>2. \A q \in Pid : Running(q)' /\ proc'[q].program \in {"ar", "tar"}
            => Running(q) /\ proc[q].program \in {"ar", "tar"}
    BY <1>2 DEF Running
  <2>3. archive' \in {archive, "none"}
    BY <1>2
  <2> QED BY <1>1, <2>1, <2>2, <2>3, UnpackingStaysAlone
<1> QED BY <1>1, <1>6, <1>7, <1>8, <1>9 DEF IInv

\* A child exits, or opkg takes its lock.
LEMMA ChildKeeps ==
    ASSUME IInv, ChildConstants, NEW p \in Pid, OpkgLocks(p) \/ ChildExits(p)
    PROVE  IInv'
<1>1. TypeOK /\ ObjectsKnow /\ WatchesKnow /\ OneWatch /\ LockIsOpkg /\ OutputRead /\ UnpacksAlone
  BY DEF IInv
<1>2. UNCHANGED <<object, m_locked, watch, crashes>> /\ Running(p)
  BY DEF OpkgLocks, ChildExits, ArExits, TarExits, JailerExits, OpkgExits
<1>3. lockFile' \in [Root -> Pid \cup {NoPid, "stale"}]
  BY <1>1 DEF OpkgLocks, ChildExits, ArExits, TarExits, JailerExits, OpkgExits, TypeOK
<1>4. archive' \in Whose /\ (archive' # archive => archive' = OwnerOf(p) /\ proc[p].program = "ar")
  <2>1. OwnerOf(p) \in Whose
    BY DEF OwnerOf, Whose
  <2> QED BY <2>1, <1>1 DEF OpkgLocks, ChildExits, ArExits, TarExits, JailerExits, OpkgExits, TypeOK
<1>5. proc[p] \in Process /\ proc[p] # NoProcess
  <2>1. proc[p] \in Process \cup {NoProcess}
    BY <1>1 DEF TypeOK
  <2>2. proc[p] # NoProcess
    BY <1>2 DEF Running, NoProcess
  <2> QED BY <2>1, <2>2
<1>6. PICK x \in Process \cup {NoProcess} :
          /\ proc' = [proc EXCEPT ![p] = x]
          /\ x # NoProcess => x.program = proc[p].program /\ (x.own <=> proc[p].own)
          /\ x = NoProcess => ~proc[p].own
  <2>1. CASE OpkgLocks(p)
    <3> DEFINE x == [proc[p] EXCEPT !.hasLock = TRUE]
    <3>1. proc' = [proc EXCEPT ![p] = x]
      BY <2>1 DEF OpkgLocks
    <3>2. x \in Process /\ x.program = proc[p].program /\ (x.own <=> proc[p].own)
      BY <1>5 DEF Process
    <3>3. x # NoProcess
      BY <3>2, ProcessChanges
    <3> HIDE DEF x
    <3> QED BY <3>1, <3>2, <3>3
  <2>2. CASE ChildExits(p)
    <3>1. PICK ok \in BOOLEAN : Exit(p, ok)
      BY <2>2 DEF ChildExits, ArExits, TarExits, JailerExits, OpkgExits
    <3>2. CASE proc[p].own
      <4> DEFINE x == [proc[p] EXCEPT !.state = "exited", !.ok = ok, !.hasLock = FALSE]
      <4>1. proc' = [proc EXCEPT ![p] = x]
        BY <3>1, <3>2 DEF Exit
      <4>2. x \in Process /\ x.program = proc[p].program /\ (x.own <=> proc[p].own)
        BY <1>5 DEF Process
      <4>3. x # NoProcess
        BY <4>2, ProcessChanges
      <4> HIDE DEF x
      <4> QED BY <4>1, <4>2, <4>3
    <3>3. CASE ~proc[p].own
      BY <3>1, <3>3 DEF Exit
    <3> QED BY <3>2, <3>3
  <2> QED BY <2>1, <2>2
<1>7. proc'[p] = x /\ \A q \in Pid : q # p => proc'[q] = proc[q]
  BY <1>1, <1>6 DEF TypeOK
<1>8. \A q \in Pid : /\ q \in Children' <=> q \in Children
                     /\ proc'[q] # NoProcess => proc'[q].program = proc[q].program
                     /\ Running(q)' => Running(q)
  BY <1>2, <1>5, <1>6, <1>7 DEF Children, Running
<1>9. TypeOK'
  BY <1>1, <1>2, <1>3, <1>4, <1>6 DEF TypeOK
<1>10. ObjectsKnow' /\ WatchesKnow' /\ OneWatch' /\ LockIsOpkg'
  <2>1. \A q \in Pid : /\ q \in Children' <=> q \in Children
                       /\ q \in Children => proc'[q].program = proc[q].program
    BY <1>8 DEF Children
  <2>2. watch' = watch /\ m_locked' = m_locked /\ object' = object
    BY <1>2
  <2> QED BY <1>1, <2>1, <2>2, QuietStepsKeepTheBooks
<1>11. OutputRead'
  BY <1>1, <1>2, <1>8, OutputStaysRead DEF OpkgChildren, Children
<1>12. UnpacksAlone'
  <2>1. \A q \in Pid : Running(q)' /\ proc'[q].program \in {"ar", "tar"}
            => Running(q) /\ proc[q].program \in {"ar", "tar"}
    BY <1>8 DEF Running, NoProcess
  <2>2. CASE archive' = archive
    BY <2>1, <2>2, <1>1, <1>2, UnpackingStaysAlone
  <2>3. CASE archive' # archive
    <3>1. archive' = OwnerOf(p) /\ proc[p].program = "ar"
      BY <2>3, <1>4
    <3>2. ASSUME NEW o \in Wrapper, object[o].alone, object[o].m_pid # NoPid PROVE archive' # "other"
      <4>1. p = object[o].m_pid
        BY <3>1, <3>2, <1>1, <1>2 DEF UnpacksAlone
      <4> QED BY <4>1, <3>1 DEF OwnerOf
    <3> QED BY <3>2, <2>1, <1>1, <1>2 DEF UnpacksAlone
  <2> QED BY <2>2, <2>3
<1> QED BY <1>9, <1>10, <1>11, <1>12 DEF IInv

\* The daemon dies: no object, no watch and no child of its own is left.
LEMMA CrashKeeps ==
    ASSUME IInv, ChildConstants, Crash
    PROVE  IInv'
<1>1. TypeOK
  BY DEF IInv
<1>2. /\ \A o \in Wrapper : object'[o] = NoObject
      /\ \A s \in SourceId : watch'[s] = NoWatch
      /\ ~m_locked'
  BY DEF Crash
<1>3. \A p \in Pid : proc'[p] \in Process \cup {NoProcess} /\ (proc'[p] # NoProcess => ~proc'[p].own)
  <2> SUFFICES ASSUME NEW p \in Pid, Running(p)
               PROVE  [proc[p] EXCEPT !.own = FALSE] \in Process /\ ~[proc[p] EXCEPT !.own = FALSE].own
    BY DEF Crash
  <2>1. proc[p] \in Process
    BY <1>1 DEF TypeOK, Running, NoProcess
  <2> QED BY <2>1 DEF Process
<1>4. TypeOK'
  <2>1. crashes' \in 0 .. MaxCrashes
    BY <1>1 DEF Crash, TypeOK, ChildConstants
  <2>2. archive' \in Whose
    BY <1>1 DEF Crash, Disowned, Whose, TypeOK
  <2>3. proc' \in [Pid -> Process \cup {NoProcess}]
    BY <1>3 DEF Crash
  <2> QED BY <2>1, <2>2, <2>3, <1>1 DEF Crash, TypeOK
<1>5. Children' = {} /\ OpkgChildren' = {}
  BY <1>3 DEF Children, OpkgChildren
<1>6. ObjectsKnow' /\ WatchesKnow' /\ OneWatch' /\ LockIsOpkg'
  BY <1>2, <1>5 DEF ObjectsKnow, WatchesKnow, OneWatch, LockIsOpkg
<1>7. OutputRead' /\ UnpacksAlone'
  BY <1>2 DEF OutputRead, OutputOf, UnpacksAlone, NoObject
<1> QED BY <1>4, <1>6, <1>7 DEF IInv

\* ar cannot be started, or nothing happens.
LEMMA ExtractFailsKeeps ==
    ASSUME IInv, ChildConstants, ExtractFails \/ UNCHANGED vars
    PROVE  IInv'
<1>1. TypeOK /\ ObjectsKnow /\ WatchesKnow /\ OneWatch /\ LockIsOpkg /\ OutputRead /\ UnpacksAlone
  BY DEF IInv
<1>2. UNCHANGED <<object, m_locked, watch, proc, lockFile, crashes>> /\ archive' \in {archive, "none"}
  BY DEF ExtractFails, RemoveTmp, vars
<1>3. TypeOK'
  BY <1>1, <1>2 DEF TypeOK, Whose
<1>4. ObjectsKnow' /\ WatchesKnow' /\ OneWatch' /\ LockIsOpkg' /\ OutputRead' /\ UnpacksAlone'
  BY <1>1, <1>2 DEF ObjectsKnow, WatchesKnow, Unlocks, OneWatch, LockIsOpkg, Children,
     OpkgChildren, OutputRead, OutputOf, UnpacksAlone, Running
<1> QED BY <1>3, <1>4 DEF IInv

\* The daemon starts with nothing.
LEMMA InitKeeps ==
    ASSUME ChildConstants, Init
    PROVE  IInv
<1>1. TypeOK
  <2>1. crashes \in 0 .. MaxCrashes
    BY DEF Init, ChildConstants
  <2>2. lockFile \in [Root -> Pid \cup {NoPid, "stale"}] /\ archive \in Whose
    BY DEF Init, Whose
  <2>3. /\ object \in [Wrapper -> Object \cup {NoObject}]
        /\ watch \in [SourceId -> Watch \cup {NoWatch}]
        /\ proc \in [Pid -> Process \cup {NoProcess}]
        /\ m_locked \in BOOLEAN
    BY DEF Init
  <2> QED BY <2>1, <2>2, <2>3 DEF TypeOK
<1>2. Children = {} /\ OpkgChildren = {}
  BY DEF Init, Children, OpkgChildren
<1>3. ObjectsKnow /\ WatchesKnow /\ OneWatch /\ LockIsOpkg
  BY <1>2 DEF Init, ObjectsKnow, WatchesKnow, OneWatch, LockIsOpkg
<1>4. OutputRead /\ UnpacksAlone
  BY DEF Init, OutputRead, OutputOf, UnpacksAlone, NoObject
<1> QED BY <1>1, <1>3, <1>4 DEF IInv

\* Every step keeps the invariant.
LEMMA NextKeeps ==
    ASSUME IInv, ChildConstants, [Next]_vars
    PROVE  IInv'
<1>1. CASE ExtractFails \/ UNCHANGED vars
  BY <1>1, ExtractFailsKeeps
<1>2. ASSUME NEW o \in Wrapper, Owner(o) \/ DispatchOutput(o) \/ OpkgWrites(o) PROVE IInv'
  <2>1. CASE Destroy(o)
    BY <2>1, DestroyKeeps
  <2>2. CASE Extract(o)
    BY <2>2, ExtractKeeps
  <2>3. CASE JailRemove(o)
    BY <2>3, JailRemoveKeeps
  <2>4. ASSUME NEW root \in Root, Install(o, root) PROVE IInv'
    BY <2>4, LaunchKeeps DEF Install
  <2>5. ASSUME NEW root \in Root, NEW devMode \in BOOLEAN, Remove(o, root, devMode) PROVE IInv'
    <3>1. PICK roots : Launch(o, root, roots)
      BY <2>5 DEF Remove
    <3> QED BY <3>1, LaunchKeeps
  <2>6. CASE DispatchOutput(o) \/ OpkgWrites(o)
    BY <2>6, OutputKeeps DEF DispatchOutput
  <2> QED BY <1>2, <2>1, <2>2, <2>3, <2>4, <2>5, <2>6 DEF Owner
<1>3. ASSUME NEW s \in SourceId, Dispatch(s) \/ DispatchIdle(s) PROVE IInv'
  BY <1>3, ReapingKeeps, UnpackNextKeeps DEF Dispatch, DispatchIdle
<1>4. ASSUME NEW p \in Pid, OpkgLocks(p) \/ ChildExits(p) PROVE IInv'
  BY <1>4, ChildKeeps
<1>5. CASE Crash
  BY <1>5, CrashKeeps
<1> QED BY <1>1, <1>2, <1>3, <1>4, <1>5 DEF Next

\* The inductive invariant holds, whatever the number of objects, ids, roots and crashes.
LEMMA InvariantHolds == Spec => []IInv
<1>1. Init => IInv
  BY InitKeeps, ChildConstants
<1>2. IInv /\ [Next]_vars => IInv'
  BY NextKeeps, ChildConstants
<1> QED BY <1>1, <1>2, PTL DEF Spec

---------------------------------------------------------------------------
(* The properties.                                                         *)

\* Types.
LEMMA TypeCorrect == Spec => []TypeOK
<1>1. IInv => TypeOK
  BY DEF IInv
<1> QED BY <1>1, InvariantHolds, PTL

(***************************************************************************)
(* NoStrayWatch: every child of the daemon has one watch until it is       *)
(* reaped, and a watch that calls an object calls a living one that knows  *)
(* it, for any number of objects, and however ids come round again.        *)
(***************************************************************************)
THEOREM WatchesCallTheLiving == Spec => []NoStrayWatch
<1>1. IInv => NoStrayWatch
  <2> SUFFICES ASSUME IInv PROVE NoStrayWatch
    OBVIOUS
  <2>1. TypeOK /\ WatchesKnow /\ OneWatch
    BY DEF IInv
  <2>2. ASSUME NEW p \in Children PROVE \E s \in SourceId : Watches(p) = {s}
    <3>1. PICK s \in SourceId : watch[s].pid = p
      BY <2>1 DEF OneWatch
    <3>2. watch[s] # NoWatch
      BY <3>1, WatchIsWatch, ChildConstants DEF Children
    <3>3. \A u \in SourceId : watch[u].pid = p => u = s
      BY <3>1, <3>2, <2>1 DEF OneWatch
    <3> QED BY <3>1, <3>3 DEF Watches
  <2> QED BY <2>1, <2>2 DEF NoStrayWatch, WatchesKnow
<1> QED BY <1>1, InvariantHolds, PTL

(***************************************************************************)
(* LockIsOpkg: m_locked is set exactly while an opkg child of this daemon  *)
(* has not been reaped, also after the object that started it has gone,    *)
(* and there is never a second one.                                        *)
(***************************************************************************)
THEOREM OneOpkg == Spec => []LockIsOpkg
<1>1. IInv => LockIsOpkg
  BY DEF IInv
<1> QED BY <1>1, InvariantHolds, PTL

(***************************************************************************)
(* ToldInFullAndOnce: an owner is called back once, when its last child is *)
(* reaped, and has been told every line that opkg wrote by then.           *)
(***************************************************************************)
THEOREM OwnersAreTold == Spec => []ToldInFullAndOnce
<1>1. IInv => ToldInFullAndOnce
  <2> SUFFICES ASSUME IInv, NEW o \in Wrapper, object[o] # NoObject
               PROVE  IF object[o].m_pid = NoPid THEN object[o].answers = 1 /\ object[o].unread = 0
                      ELSE /\ object[o].answers = 0
                           /\ watch[object[o].m_sourceId] = [pid |-> object[o].m_pid, target |-> o]
    BY DEF ToldInFullAndOnce
  <2>1. ObjectsKnow /\ OutputOf(o)
    BY DEF IInv, OutputRead
  <2> QED BY <2>1 DEF ObjectsKnow, OutputOf
<1> QED BY <1>1, InvariantHolds, PTL

(***************************************************************************)
(* UnpacksItsOwn: while nobody left by a crash still writes to tmp/<id>,   *)
(* the archive that tar unpacks is that of the ipk to install.             *)
(***************************************************************************)
THEOREM PackagesAreRead == Spec => []UnpacksItsOwn
<1>1. IInv => UnpacksItsOwn
  BY DEF IInv, UnpacksAlone, UnpacksItsOwn
<1> QED BY <1>1, InvariantHolds, PTL

\* An opkg that a step has started finds no lock file.
LEMMA OpkgIsLaunched ==
    ASSUME IInv, ChildConstants, Next,
           NEW p \in Pid, proc[p] = NoProcess, proc'[p] # NoProcess, proc'[p].program = "opkg"
    PROVE  lockFile'[proc'[p].root] = NoPid
<1>1. TypeOK
  BY DEF IInv
<1>2. ASSUME NEW o \in Wrapper, NEW root \in Root, NEW roots, root \in roots, Launch(o, root, roots)
      PROVE  lockFile'[proc'[p].root] = NoPid
  <2>1. /\ ~m_locked
        /\ proc' = [proc EXCEPT ![Fresh(FreePids(proc))] = NewProcess("opkg", root)]
    BY <1>2 DEF Launch, SpawnWatched
  <2>2. proc'[p] = NewProcess("opkg", root)
    BY <2>1, <1>1 DEF TypeOK
  <2>3. proc'[p].root = root
    BY <2>2 DEF NewProcess
  <2> QED BY <2>1, <2>3, <1>2 DEF Launch, RestoreUnlocked, Restored
<1>3. ASSUME NEW o \in Wrapper, JailRemove(o) \/ Extract(o) PROVE FALSE
  <2>1. PICK program \in {"jailer", "ar"} :
            proc' = [proc EXCEPT ![Fresh(FreePids(proc))] = NewProcess(program, DevRoot)]
    BY <1>3 DEF JailRemove, Extract, SpawnWatched
  <2>2. proc'[p] = NewProcess(program, DevRoot)
    BY <2>1, <1>1 DEF TypeOK
  <2> QED BY <2>2 DEF NewProcess
<1>4. ASSUME NEW s \in SourceId, proc' = Reaped(s) PROVE FALSE
  BY <1>4, <1>1 DEF Reaped, TypeOK
<1>5. ASSUME NEW o \in Wrapper, NEW s \in SourceId, UnpackNext(o, s) PROVE FALSE
  <2> DEFINE q == Fresh(FreePids(Reaped(s)))
  <2>1. proc' = [Reaped(s) EXCEPT ![q] = NewProcess("tar", DevRoot)]
    BY <1>5 DEF UnpackNext, SpawnWatched
  <2>2. proc'[p] \in {NewProcess("tar", DevRoot), NoProcess, proc[p]}
    BY <2>1, <1>1 DEF Reaped, TypeOK
  <2>3. NewProcess("tar", DevRoot).program = "tar"
    BY DEF NewProcess
  <2> QED BY <2>2, <2>3
<1>6. ASSUME NEW q \in Pid, OpkgLocks(q) \/ ChildExits(q) PROVE FALSE
  <2>1. Running(q) /\ \A u \in Pid : u # q => proc'[u] = proc[u]
    BY <1>6, <1>1 DEF OpkgLocks, ChildExits, ArExits, TarExits, JailerExits, OpkgExits, Exit, TypeOK
  <2>2. q # p
    BY <2>1 DEF Running, NoProcess
  <2> QED BY <2>1, <2>2
<1>7. ASSUME proc' = proc PROVE FALSE
  BY <1>7
<1>8. ~Crash
  BY DEF Crash, Running, NoProcess
<1>9. ~ExtractFails
  BY <1>7 DEF ExtractFails
<1>10. ASSUME NEW o \in Wrapper, Owner(o) \/ DispatchOutput(o) \/ OpkgWrites(o)
       PROVE  lockFile'[proc'[p].root] = NoPid
  <2>1. CASE Destroy(o) \/ DispatchOutput(o) \/ OpkgWrites(o)
    BY <2>1, <1>7 DEF Destroy, DispatchOutput, ChildProgress, ChildOutputEnds, OpkgWrites
  <2>2. CASE JailRemove(o) \/ Extract(o)
    BY <2>2, <1>3
  <2>3. ASSUME NEW root \in Root, Install(o, root) PROVE lockFile'[proc'[p].root] = NoPid
    BY <2>3, <1>2 DEF Install
  <2>4. ASSUME NEW root \in Root, NEW devMode \in BOOLEAN, Remove(o, root, devMode)
        PROVE  lockFile'[proc'[p].root] = NoPid
    <3>1. PICK roots : root \in roots /\ Launch(o, root, roots)
      BY <2>4 DEF Remove
    <3> QED BY <3>1, <1>2
  <2> QED BY <1>10, <2>1, <2>2, <2>3, <2>4 DEF Owner
<1>11. ASSUME NEW s \in SourceId, Dispatch(s) \/ DispatchIdle(s) PROVE FALSE
  BY <1>11, <1>4, <1>5 DEF Dispatch, DispatchIdle, ExtractEnds, JailRemoved, ReaperFires,
     UnlockerFires, ChildComplete
<1> QED BY <1>6, <1>8, <1>9, <1>10, <1>11 DEF Next

\* Who takes away the lock file that a child of the daemon holds.
LEMMA HeldLockIsOpkgs ==
    ASSUME IInv, ChildConstants, Next,
           NEW r \in Root, lockFile[r] \in OpkgChildren, lockFile'[r] # lockFile[r]
    PROVE  \E p \in Pid : /\ Running(p) /\ proc[p].program = "opkg" /\ proc[p].root = r
                          /\ proc'[p].state # "running"
<1>1. TypeOK /\ m_locked /\ NoPid \notin OpkgChildren
  BY DEF IInv, LockIsOpkg, OpkgChildren, Children, ChildConstants
<1>2. ASSUME NEW o, NEW root, NEW roots, Launch(o, root, roots) PROVE FALSE
  BY <1>2, <1>1 DEF Launch, RestoreUnlocked
<1>3. ASSUME NEW p \in Pid, NEW killed \in BOOLEAN, OpkgExits(p, killed)
      PROVE  /\ Running(p) /\ proc[p].program = "opkg" /\ proc[p].root = r
             /\ proc'[p].state # "running"
  <2>1. Running(p) /\ proc[p].program = "opkg" /\ proc[p].root = r
    BY <1>3, <1>1 DEF OpkgExits, TypeOK
  <2> DEFINE exited == [proc[p] EXCEPT !.state = "exited", !.ok = TRUE, !.hasLock = FALSE]
  <2>2. proc'[p] = NoProcess \/ proc'[p] = exited
    BY <1>3, <1>1 DEF OpkgExits, Exit, TypeOK
  <2>3. proc[p] \in Process
    <3>1. proc[p] \in Process \cup {NoProcess}
      BY <1>1 DEF TypeOK
    <3>2. proc[p] # NoProcess
      BY <2>1 DEF Running, NoProcess
    <3> QED BY <3>1, <3>2
  <2>4. exited.state = "exited"
    BY <2>3 DEF Process
  <2> HIDE DEF exited
  <2> QED BY <2>1, <2>2, <2>4 DEF NoProcess
<1>4. ASSUME NEW p \in Pid, OpkgLocks(p) PROVE FALSE
  BY <1>4, <1>1 DEF OpkgLocks, TypeOK
<1>5. lockFile' # lockFile
  OBVIOUS
<1>6. ~Crash /\ ~ExtractFails
  BY <1>5 DEF Crash, ExtractFails
<1>7. ASSUME NEW o \in Wrapper, Owner(o) \/ DispatchOutput(o) \/ OpkgWrites(o) PROVE FALSE
  BY <1>7, <1>2, <1>5 DEF Owner, Install, Remove, Destroy, Extract, JailRemove, DispatchOutput,
     ChildProgress, ChildOutputEnds, OpkgWrites
<1>8. ASSUME NEW s \in SourceId, Dispatch(s) \/ DispatchIdle(s) PROVE FALSE
  BY <1>8, <1>5 DEF Dispatch, DispatchIdle, ExtractEnds, JailRemoved, ReaperFires,
     UnlockerFires, ChildComplete, UnpackNext
<1>9. ASSUME NEW p \in Pid, ChildExits(p) PROVE \E killed \in BOOLEAN : OpkgExits(p, killed)
  BY <1>9, <1>5 DEF ChildExits, ArExits, TarExits, JailerExits
<1> QED BY <1>3, <1>4, <1>6, <1>7, <1>8, <1>9 DEF Next

(***************************************************************************)
(* LockFilesTended: no opkg is started in front of a lock file, and the    *)
(* one a running child of the daemon holds is taken away by nobody but an  *)
(* opkg that exits: not by restore, which a command that finds m_locked    *)
(* set does not reach.                                                     *)
(***************************************************************************)
THEOREM LocksAreTended == Spec => LockFilesTended
<1> DEFINE Tended ==
        /\ \A p \in Pid : proc[p] = NoProcess /\ proc'[p] # NoProcess /\ proc'[p].program = "opkg"
               => lockFile'[proc'[p].root] = NoPid
        /\ \A r \in Root : lockFile[r] \in OpkgChildren /\ lockFile'[r] # lockFile[r]
               => \E p \in Pid : /\ Running(p) /\ proc[p].program = "opkg" /\ proc[p].root = r
                                 /\ proc'[p].state # "running"
<1>1. IInv /\ [Next]_vars => [Tended]_vars
  BY OpkgIsLaunched, HeldLockIsOpkgs, ChildConstants
<1>2. Spec => [][Tended]_vars
  <2> HIDE DEF Tended
  <2> QED BY <1>1, InvariantHolds, PTL DEF Spec
<1> QED BY <1>2 DEF LockFilesTended

=============================================================================
