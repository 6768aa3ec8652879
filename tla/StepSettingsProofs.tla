--------------------------- MODULE StepSettingsProofs ---------------------------
(***************************************************************************)
(* Proofs about StepSettings: for every configuration file from which the  *)
(* stages can be dropped at all, the two loops leave tables that run       *)
(* exactly the stages the image supports; and what the loops make of the   *)
(* shipped file is what AppInstaller assumes of its tables.                *)
(*                                                                         *)
(* A dropped entry hands the status it was reached by to the entry that    *)
(* follows its stage, which may be dropped as well.  The chain from an     *)
(* entry through the dropped ones ends at one that is kept; the invariant  *)
(* of a loop says of each chain whether the entries read so far include    *)
(* its end, and then the table has it under the status the chain began     *)
(* with, or only a part of it, and then keepStatus is that status.         *)
(***************************************************************************)
EXTENDS StepSettings, TLAPS

---------------------------------------------------------------------------
(* Chains of entries.                                                      *)

\* The stages an image may lack, of an install and of a remove.
Droppable(dropped) ==
    \/ dropped \subseteq {"InstallSmackNeeded"}
    \/ dropped \subseteq {"RemoveJailNeeded", "RemoveSmackNeeded"}

Configuration(conf) == conf \in Seq([status : TaskStep, action : TaskStep])

\* The status of entry k is not one that only a dropped stage sets.
Begins(conf, dropped, k) == \A stage \in dropped : conf[k].status # DoneStatus[stage]

\* Entry l is for the status that the dropped stage of entry k would have set.
Follows(conf, dropped, k, l) ==
    conf[k].action \in dropped /\ conf[l].status = DoneStatus[conf[k].action]

\* Entry k is on the chain that starts at entry i.
Leads(conf, dropped, i, k) ==
    /\ Begins(conf, dropped, i)
    /\ \/ k = i
       \/ Follows(conf, dropped, i, k)
       \/ \E l \in DOMAIN conf : Follows(conf, dropped, i, l) /\ Follows(conf, dropped, l, k)

\* The chain that starts at entry i ends at entry k.
EndsAt(conf, dropped, i, k) == Leads(conf, dropped, i, k) /\ conf[k].action \notin dropped

---------------------------------------------------------------------------

\* The stages that may be dropped have different statuses, and are at most two.
LEMMA DroppableStages ==
    ASSUME NEW dropped, Droppable(dropped)
    PROVE  /\ \A A, B \in dropped : DoneStatus[A] = DoneStatus[B] => A = B
           /\ \A A, B, C \in dropped : A = B \/ B = C \/ A = C
BY DEF Droppable, DoneStatus

\* The entries of an array are pairs of statuses.
LEMMA EntriesAreSteps ==
    ASSUME NEW conf, Configuration(conf)
    PROVE  \A k \in DOMAIN conf : conf[k].status \in TaskStep /\ conf[k].action \in TaskStep
<1> DEFINE E == [status : TaskStep, action : TaskStep]
<1>1. conf \in Seq(E)
    BY DEF Configuration
<1> HIDE DEF E
<1>2. \A k \in DOMAIN conf : conf[k] \in E
    BY <1>1
<1> QED BY <1>2 DEF E

\* The entry after a dropped one comes later, and no entry in between is dropped.
LEMMA FollowsIsLater ==
    ASSUME NEW conf, NEW dropped, Bypassable(conf, dropped),
           NEW k \in DOMAIN conf, NEW l \in DOMAIN conf, Follows(conf, dropped, k, l)
    PROVE  /\ k < l
           /\ \A i \in DOMAIN conf : k < i /\ i < l => conf[i].action \notin dropped
           /\ conf[k].action = "RemoveSmackNeeded" => conf[l].action # "RemoveJailNeeded"
BY DEF Bypassable, Follows

\* A dropped entry is followed by one entry.
LEMMA FollowsOnce ==
    ASSUME NEW conf, NEW dropped, Bypassable(conf, dropped), NEW k \in DOMAIN conf
    PROVE  /\ conf[k].action \in dropped => \E l \in DOMAIN conf : Follows(conf, dropped, k, l)
           /\ \A l, m \in DOMAIN conf :
                  Follows(conf, dropped, k, l) /\ Follows(conf, dropped, k, m) => l = m
BY DEF Bypassable, Follows

\* An entry follows at most one other, and one if a dropped stage sets its status.
LEMMA FollowsOne ==
    ASSUME NEW conf, NEW dropped, Configuration(conf), Droppable(dropped),
           Bypassable(conf, dropped), NEW l \in DOMAIN conf
    PROVE  /\ ~Begins(conf, dropped, l) => \E k \in DOMAIN conf : Follows(conf, dropped, k, l)
           /\ \A j, k \in DOMAIN conf :
                  Follows(conf, dropped, j, l) /\ Follows(conf, dropped, k, l) => j = k
<1>1. ~Begins(conf, dropped, l) => \E k \in DOMAIN conf : Follows(conf, dropped, k, l)
    BY DEF Bypassable, Follows, Begins
<1>2. ASSUME NEW j \in DOMAIN conf, NEW k \in DOMAIN conf,
             Follows(conf, dropped, j, l), Follows(conf, dropped, k, l)
      PROVE  j = k
    <2>1. conf[j].action \in dropped /\ conf[k].action \in dropped
        BY <1>2 DEF Follows
    <2>2. j < l /\ k < l
        BY <1>2, FollowsIsLater
    <2>3. ~(j < k) /\ ~(k < j)
        BY <1>2, <2>1, <2>2, FollowsIsLater
    <2>4. DOMAIN conf \subseteq Nat
        BY DEF Configuration
    <2> QED BY <2>3, <2>4
<1> QED BY <1>1, <1>2

\* Every entry is on the chain of some entry.
LEMMA ChainOf ==
    ASSUME NEW conf, NEW dropped, Configuration(conf), Droppable(dropped),
           Bypassable(conf, dropped), NEW k \in DOMAIN conf
    PROVE  \E i \in DOMAIN conf : Leads(conf, dropped, i, k)
<1>1. CASE Begins(conf, dropped, k)
    BY <1>1 DEF Leads
<1>2. CASE ~Begins(conf, dropped, k)
    <2>1. PICK j \in DOMAIN conf : Follows(conf, dropped, j, k)
        BY <1>2, FollowsOne
    <2>2. CASE Begins(conf, dropped, j)
        BY <2>1, <2>2 DEF Leads
    <2>3. CASE ~Begins(conf, dropped, j)
        <3>1. PICK i \in DOMAIN conf : Follows(conf, dropped, i, j)
            BY <2>3, FollowsOne
        <3>2. i < j /\ j < k /\ i \in Nat /\ j \in Nat /\ k \in Nat
            BY <2>1, <3>1, FollowsIsLater DEF Configuration
        <3>3. ASSUME ~Begins(conf, dropped, i)
              PROVE  FALSE
            <4>1. PICK h \in DOMAIN conf : Follows(conf, dropped, h, i)
                BY <3>3, FollowsOne
            <4>2. h < i /\ h \in Nat
                BY <4>1, FollowsIsLater DEF Configuration
            <4>3. \/ conf[h].action = conf[i].action \/ conf[i].action = conf[j].action
                  \/ conf[h].action = conf[j].action
                BY <2>1, <3>1, <4>1, DroppableStages DEF Follows
            <4>4. conf[h].action # conf[i].action
                BY <3>1, <4>1, <3>2, <4>2 DEF Follows, Bypassable
            <4>5. conf[i].action # conf[j].action
                BY <2>1, <3>1, <3>2 DEF Follows, Bypassable
            <4>6. conf[h].action # conf[j].action
                BY <2>1, <4>1, <3>2, <4>2 DEF Follows, Bypassable
            <4> QED BY <4>3, <4>4, <4>5, <4>6
        <3> QED BY <2>1, <3>1, <3>3 DEF Leads
    <2> QED BY <2>2, <2>3
<1> QED BY <1>1, <1>2

\* It is on one chain only.
LEMMA OneChain ==
    ASSUME NEW conf, NEW dropped, Configuration(conf), Droppable(dropped),
           Bypassable(conf, dropped), NEW k \in DOMAIN conf,
           NEW i \in DOMAIN conf, NEW j \in DOMAIN conf,
           Leads(conf, dropped, i, k), Leads(conf, dropped, j, k)
    PROVE  i = j
<1>1. \A l, m \in DOMAIN conf : Follows(conf, dropped, l, m) => ~Begins(conf, dropped, m)
    BY DEF Follows, Begins
<1>2. \A h, l, m \in DOMAIN conf :
          Follows(conf, dropped, h, m) /\ Follows(conf, dropped, l, m) => h = l
    BY FollowsOne
<1>3. Begins(conf, dropped, i) /\ Begins(conf, dropped, j)
    BY DEF Leads
<1> QED BY <1>1, <1>2, <1>3 DEF Leads

\* Every chain ends, at one entry.
LEMMA ChainEnds ==
    ASSUME NEW conf, NEW dropped, Configuration(conf), Droppable(dropped),
           Bypassable(conf, dropped), NEW i \in DOMAIN conf, Begins(conf, dropped, i)
    PROVE  /\ \E k \in DOMAIN conf : EndsAt(conf, dropped, i, k)
           /\ \A k, l \in DOMAIN conf :
                  EndsAt(conf, dropped, i, k) /\ EndsAt(conf, dropped, i, l) => k = l
<1>1. \E k \in DOMAIN conf : EndsAt(conf, dropped, i, k)
    <2>1. CASE conf[i].action \notin dropped
        BY <2>1 DEF EndsAt, Leads
    <2>2. CASE conf[i].action \in dropped
        <3>1. PICK l \in DOMAIN conf : Follows(conf, dropped, i, l)
            BY <2>2, FollowsOnce
        <3>2. CASE conf[l].action \notin dropped
            BY <3>1, <3>2 DEF EndsAt, Leads
        <3>3. CASE conf[l].action \in dropped
            <4>1. PICK m \in DOMAIN conf : Follows(conf, dropped, l, m)
                BY <3>3, FollowsOnce
            <4>2. i < l /\ l < m /\ i \in Nat /\ l \in Nat /\ m \in Nat
                BY <3>1, <4>1, FollowsIsLater DEF Configuration
            <4>3. ASSUME conf[m].action \in dropped
                  PROVE  FALSE
                <5>1. PICK h \in DOMAIN conf : Follows(conf, dropped, m, h)
                    BY <4>3, FollowsOnce
                <5>2. m < h /\ h \in Nat
                    BY <5>1, FollowsIsLater DEF Configuration
                <5>3. conf[i].action # conf[l].action
                    BY <3>1, <4>1, <4>2 DEF Follows, Bypassable
                <5>4. conf[l].action # conf[m].action
                    BY <4>1, <5>1, <4>2, <5>2 DEF Follows, Bypassable
                <5>5. conf[i].action # conf[m].action
                    BY <3>1, <5>1, <4>2, <5>2 DEF Follows, Bypassable
                <5> QED BY <5>3, <5>4, <5>5, <2>2, <3>3, <4>3, DroppableStages
            <4> QED BY <3>1, <4>1, <4>3 DEF EndsAt, Leads
        <3> QED BY <3>2, <3>3
    <2> QED BY <2>1, <2>2
<1>2. \A k, l, m \in DOMAIN conf :
          Follows(conf, dropped, k, l) /\ Follows(conf, dropped, k, m) => l = m
    BY FollowsOnce
<1>3. \A k, l \in DOMAIN conf : Follows(conf, dropped, k, l) => conf[k].action \in dropped
    BY DEF Follows
<1>4. \A k, l \in DOMAIN conf :
          EndsAt(conf, dropped, i, k) /\ EndsAt(conf, dropped, i, l) => k = l
    BY <1>2, <1>3 DEF EndsAt, Leads
<1> QED BY <1>1, <1>4

---------------------------------------------------------------------------
(* One iteration of a loop.                                                *)

\* What the loop has made of the first n entries.
LoadedUpTo(table, keep, conf, dropped, n) ==
    /\ \A s \in DOMAIN table :
           \E i, k \in DOMAIN conf :
               conf[i].status = s /\ k <= n /\ EndsAt(conf, dropped, i, k)
    /\ \A i, k \in DOMAIN conf :
           k <= n /\ EndsAt(conf, dropped, i, k) =>
               conf[i].status \in DOMAIN table /\ table[conf[i].status] = conf[k].action
    /\ \A i, k \in DOMAIN conf :
           /\ k <= n /\ Leads(conf, dropped, i, k) /\ conf[k].action \in dropped
           /\ \A l \in DOMAIN conf : k < l /\ l <= n => conf[l].action \notin dropped
           => keep = conf[i].status

\* The status an entry is taken to be for.
Source(conf, dropped, keep, k) ==
    IF Begins(conf, dropped, k) THEN conf[k].status ELSE keep

\* A dropped entry is remembered by its status, the others are stored under theirs.
Effect(conf, dropped, loaded, k) ==
    LET status == Source(conf, dropped, loaded.keepStatus, k)
    IN  IF conf[k].action \in dropped
        THEN [keepStatus |-> status, table |-> loaded.table]
        ELSE [keepStatus |-> loaded.keepStatus,
              table |-> InsertStep(loaded.table, status, conf[k].action)]

\* That is what an iteration does to an install array ...
LEMMA InstallEffect ==
    ASSUME NEW conf, NEW k \in DOMAIN conf, NEW keep, NEW table,
           Configuration(conf), smack \in BOOLEAN, Bypassable(conf, InstallDropped)
    PROVE  InstallEntry(smack, [keepStatus |-> keep, table |-> table], conf[k])
               = Effect(conf, InstallDropped, [keepStatus |-> keep, table |-> table], k)
<1>1. CASE smack
    <2>1. InstallDropped = {}
        BY <1>1 DEF InstallDropped
    <2> QED BY <1>1, <2>1 DEF InstallEntry, Read, Store, Effect, Source, Begins
<1>2. CASE ~smack
    <2>1. InstallDropped = {"InstallSmackNeeded"}
        BY <1>2 DEF InstallDropped
    <2>2. Begins(conf, InstallDropped, k) <=> conf[k].status # "InstallSmackComplete"
        BY <2>1 DEF Begins, DoneStatus
    <2>3. ~(conf[k].action = "InstallSmackNeeded" /\ conf[k].status = "InstallSmackComplete")
        <3>1. k \in Nat
            BY DEF Configuration
        <3> QED BY <2>1, <3>1 DEF Bypassable, DoneStatus
    <2> QED BY <1>2, <2>1, <2>2, <2>3 DEF InstallEntry, Read, Store, Bypass, Effect, Source
<1> QED BY <1>1, <1>2

\* ... and to a remove array, if keepStatus is the status a chain began with.
LEMMA RemoveEffect ==
    ASSUME NEW conf, NEW k \in DOMAIN conf, NEW keep, NEW table,
           Configuration(conf), jail \in BOOLEAN, smack \in BOOLEAN,
           Bypassable(conf, RemoveDropped),
           ~Begins(conf, RemoveDropped, k) =>
               \A stage \in RemoveDropped : keep # DoneStatus[stage]
    PROVE  RemoveEntry(jail, smack, [keepStatus |-> keep, table |-> table], conf[k])
               = Effect(conf, RemoveDropped, [keepStatus |-> keep, table |-> table], k)
<1> DEFINE read == Read(keep, conf[k])
           jailed == IF jail THEN read
                     ELSE Bypass(read, conf[k], "RemoveJailNeeded", "RemoveJailComplete")
           both == IF smack THEN jailed
                   ELSE Bypass(jailed, conf[k], "RemoveSmackNeeded", "RemoveSmackComplete")
           status == Source(conf, RemoveDropped, keep, k)
<1>1. RemoveEntry(jail, smack, [keepStatus |-> keep, table |-> table], conf[k])
          = Store(both, conf[k], table)
    BY DEF RemoveEntry
<1>2. /\ "RemoveJailNeeded" \in RemoveDropped <=> ~jail
      /\ "RemoveSmackNeeded" \in RemoveDropped <=> ~smack
      /\ RemoveDropped \subseteq {"RemoveJailNeeded", "RemoveSmackNeeded"}
    BY DEF RemoveDropped
<1>3. Begins(conf, RemoveDropped, k) <=>
          /\ ~jail => conf[k].status # "RemoveJailComplete"
          /\ ~smack => conf[k].status # "RemoveSmackComplete"
    BY <1>2 DEF Begins, DoneStatus
<1>4. \A l \in DOMAIN conf : Follows(conf, RemoveDropped, l, k) =>
          l # k /\ (conf[l].action = "RemoveSmackNeeded" => conf[k].action # "RemoveJailNeeded")
    <2>1. DOMAIN conf \subseteq Nat
        BY DEF Configuration
    <2> QED BY <2>1, FollowsIsLater
<1>5. Droppable(RemoveDropped)
    BY <1>2 DEF Droppable
<1>6. /\ ~jail /\ conf[k].status = "RemoveJailComplete" => conf[k].action # "RemoveJailNeeded"
      /\ ~smack /\ conf[k].status = "RemoveSmackComplete" =>
             conf[k].action \notin {"RemoveJailNeeded", "RemoveSmackNeeded"}
    <2>1. ~jail /\ conf[k].status = "RemoveJailComplete" /\ conf[k].action = "RemoveJailNeeded"
              => Follows(conf, RemoveDropped, k, k)
        BY <1>2 DEF Follows, DoneStatus
    <2>2. ~smack /\ conf[k].status = "RemoveSmackComplete" =>
              \E l \in DOMAIN conf : conf[l].action = "RemoveSmackNeeded"
        BY <1>2 DEF Bypassable, DoneStatus
    <2>3. \A l \in DOMAIN conf :
              ~smack /\ conf[k].status = "RemoveSmackComplete" /\ conf[l].action = "RemoveSmackNeeded"
              => Follows(conf, RemoveDropped, l, k)
        BY <1>2 DEF Follows, DoneStatus
    <2> QED BY <1>4, <2>1, <2>2, <2>3
<1>7. ~Begins(conf, RemoveDropped, k) =>
          (~jail => keep # "RemoveJailComplete") /\ (~smack => keep # "RemoveSmackComplete")
    BY <1>2 DEF DoneStatus
<1>8. CASE conf[k].action \notin RemoveDropped
    <2>1. both = [keepStatus |-> keep, status |-> status, skip |-> FALSE]
        BY <1>2, <1>3, <1>7, <1>8 DEF Read, Bypass, Source
    <2> QED BY <1>1, <2>1, <1>8 DEF Store, Effect
<1>9. CASE conf[k].action \in RemoveDropped
    <2>1. both.keepStatus = status /\ both.skip = TRUE
        BY <1>2, <1>3, <1>6, <1>7, <1>9 DEF Read, Bypass, Source
    <2> QED BY <1>1, <2>1, <1>9 DEF Store, Effect
<1> QED BY <1>8, <1>9

\* The status an entry is taken to be for is the one its chain began with.
LEMMA SourceOfChain ==
    ASSUME NEW conf, NEW dropped, Configuration(conf), Droppable(dropped),
           Bypassable(conf, dropped), NEW table, NEW keep,
           NEW n \in Nat, n + 1 \in DOMAIN conf, LoadedUpTo(table, keep, conf, dropped, n),
           NEW i \in DOMAIN conf, Leads(conf, dropped, i, n + 1)
    PROVE  Source(conf, dropped, keep, n + 1) = conf[i].status
<1>1. CASE Begins(conf, dropped, n + 1)
    <2>1. Leads(conf, dropped, n + 1, n + 1)
        BY <1>1 DEF Leads
    <2> QED BY <1>1, <2>1, OneChain DEF Source
<1>2. CASE ~Begins(conf, dropped, n + 1)
    <2>1. PICK k \in DOMAIN conf : Follows(conf, dropped, k, n + 1)
        BY <1>2, FollowsOne
    <2>2. k \in Nat /\ k < n + 1 /\ conf[k].action \in dropped
        BY <2>1, FollowsIsLater DEF Configuration, Follows
    <2>3. \A l \in DOMAIN conf : k < l /\ l <= n => conf[l].action \notin dropped
        <3>1. DOMAIN conf \subseteq Nat
            BY DEF Configuration
        <3> QED BY <2>1, <3>1, FollowsIsLater
    <2>4. PICK j \in DOMAIN conf : Leads(conf, dropped, j, k)
        BY ChainOf
    <2>5. keep = conf[j].status
        BY <2>2, <2>3, <2>4 DEF LoadedUpTo
    <2>6. Leads(conf, dropped, i, k)
        <3>1. n + 1 # i
            BY <1>2 DEF Leads
        <3>2. \A l \in DOMAIN conf : Follows(conf, dropped, l, n + 1) => l = k
            BY <2>1, FollowsOne
        <3> QED BY <3>1, <3>2 DEF Leads
    <2>7. i = j
        BY <2>4, <2>6, OneChain
    <2> QED BY <1>2, <2>5, <2>7 DEF Source
<1> QED BY <1>1, <1>2

\* An iteration extends what has been loaded by one entry.
LEMMA EntryLoads ==
    ASSUME NEW conf, NEW dropped, Configuration(conf), Droppable(dropped),
           Bypassable(conf, dropped), NEW table, NEW keep,
           NEW n \in Nat, n + 1 \in DOMAIN conf, LoadedUpTo(table, keep, conf, dropped, n),
           NEW loaded,
           loaded = Effect(conf, dropped, [keepStatus |-> keep, table |-> table], n + 1)
    PROVE  LoadedUpTo(loaded.table, loaded.keepStatus, conf, dropped, n + 1)
<1> DEFINE status == Source(conf, dropped, keep, n + 1)
<1>1. PICK o \in DOMAIN conf : Leads(conf, dropped, o, n + 1)
    BY ChainOf
<1>2. \A i \in DOMAIN conf : Leads(conf, dropped, i, n + 1) => i = o
    BY <1>1, OneChain
<1>3. status = conf[o].status
    BY <1>1, SourceOfChain
<1>4. \A k \in DOMAIN conf : k <= n + 1 <=> k <= n \/ k = n + 1
    BY DEF Configuration
<1>5. CASE conf[n + 1].action \in dropped
    <2>1. loaded.table = table /\ loaded.keepStatus = status
        BY <1>5 DEF Effect
    <2>2. \A i, k \in DOMAIN conf : EndsAt(conf, dropped, i, k) => k # n + 1
        BY <1>5 DEF EndsAt
    <2>3. \A k \in DOMAIN conf : k <= n => k < n + 1
        BY DEF Configuration
    <2>4. ASSUME NEW i \in DOMAIN conf, NEW k \in DOMAIN conf,
                 k <= n + 1, Leads(conf, dropped, i, k), conf[k].action \in dropped,
                 \A l \in DOMAIN conf : k < l /\ l <= n + 1 => conf[l].action \notin dropped
          PROVE  loaded.keepStatus = conf[i].status
        <3>1. k = n + 1
            BY <1>4, <1>5, <2>3, <2>4
        <3> QED BY <1>2, <1>3, <2>1, <2>4, <3>1
    <2>5. \A s \in DOMAIN table :
              \E i, k \in DOMAIN conf :
                  conf[i].status = s /\ k <= n + 1 /\ EndsAt(conf, dropped, i, k)
        BY <1>4 DEF LoadedUpTo
    <2>6. \A i, k \in DOMAIN conf :
              k <= n + 1 /\ EndsAt(conf, dropped, i, k) =>
                  conf[i].status \in DOMAIN table /\ table[conf[i].status] = conf[k].action
        BY <1>4, <2>2 DEF LoadedUpTo
    <2> QED BY <2>1, <2>4, <2>5, <2>6 DEF LoadedUpTo
<1>6. CASE conf[n + 1].action \notin dropped
    <2>1. loaded.table = InsertStep(table, status, conf[n + 1].action) /\ loaded.keepStatus = keep
        BY <1>6 DEF Effect
    <2>2. StringToEnumStep(status) = status
        <3>1. conf[o].status \in TaskStep
            BY EntriesAreSteps
        <3>2. NoStatus \notin TaskStep
            BY Zenon DEF NoStatus, TaskStep, StepFactory
        <3> QED BY <1>3, <3>1, <3>2 DEF StringToEnumStep
    <2>3. EndsAt(conf, dropped, o, n + 1)
        BY <1>1, <1>6 DEF EndsAt
    <2>4. status \notin DOMAIN table
        <3>1. SUFFICES ASSUME status \in DOMAIN table
                       PROVE  FALSE
            OBVIOUS
        <3>2. PICK i \in DOMAIN conf, k \in DOMAIN conf :
                  conf[i].status = status /\ k <= n /\ EndsAt(conf, dropped, i, k)
            BY <3>1 DEF LoadedUpTo
        <3>3. i = o
            BY <1>3, <3>2 DEF Bypassable
        <3>4. k = n + 1
            BY <2>3, <3>2, <3>3, ChainEnds DEF EndsAt, Leads
        <3> QED BY <3>2, <3>4
    <2>5. /\ DOMAIN loaded.table = DOMAIN table \cup {status}
          /\ loaded.table[status] = conf[n + 1].action
          /\ \A s \in DOMAIN table : loaded.table[s] = table[s]
        BY <2>1, <2>2, <2>4 DEF InsertStep
    <2>6. \A s \in DOMAIN loaded.table :
              \E i, k \in DOMAIN conf :
                  conf[i].status = s /\ k <= n + 1 /\ EndsAt(conf, dropped, i, k)
        <3>1. \A s \in DOMAIN table :
                  \E i, k \in DOMAIN conf :
                      conf[i].status = s /\ k <= n + 1 /\ EndsAt(conf, dropped, i, k)
            BY <1>4 DEF LoadedUpTo
        <3>2. n + 1 <= n + 1
            OBVIOUS
        <3> QED BY <1>3, <2>3, <2>5, <3>1, <3>2
    <2>7. ASSUME NEW i \in DOMAIN conf, NEW k \in DOMAIN conf,
                 k <= n + 1, EndsAt(conf, dropped, i, k)
          PROVE  /\ conf[i].status \in DOMAIN loaded.table
                 /\ loaded.table[conf[i].status] = conf[k].action
        <3>1. CASE k = n + 1
            BY <1>2, <1>3, <2>5, <2>7, <3>1 DEF EndsAt
        <3>2. CASE k <= n
            BY <2>5, <2>7, <3>2 DEF LoadedUpTo
        <3> QED BY <1>4, <2>7, <3>1, <3>2
    <2>8. ASSUME NEW i \in DOMAIN conf, NEW k \in DOMAIN conf,
                 k <= n + 1, Leads(conf, dropped, i, k), conf[k].action \in dropped,
                 \A l \in DOMAIN conf : k < l /\ l <= n + 1 => conf[l].action \notin dropped
          PROVE  loaded.keepStatus = conf[i].status
        BY <1>4, <1>6, <2>1, <2>8 DEF LoadedUpTo
    <2> QED BY <2>6, <2>7, <2>8 DEF LoadedUpTo
<1> QED BY <1>5, <1>6

\* A table has the stage configured for a status.
LEMMA TableEntry ==
    ASSUME NEW conf, \A k, l \in DOMAIN conf : conf[k].status = conf[l].status => k = l
    PROVE  \A k \in DOMAIN conf :
               conf[k].status \in DOMAIN Table(conf) /\ Table(conf)[conf[k].status] = conf[k].action
<1>1. TAKE k \in DOMAIN conf
<1>2. Range(conf) = {conf[l] : l \in DOMAIN conf}
    BY DEF Range
<1>3. conf[k] \in Range(conf)
    BY <1>2
<1>4. \A e \in Range(conf) : e.status = conf[k].status => e = conf[k]
    BY <1>2
<1>5. (CHOOSE e \in Range(conf) : e.status = conf[k].status) = conf[k]
    BY <1>3, <1>4
<1> QED BY <1>5 DEF Table

\* After the last entry the table is what the image leaves of the array.
LEMMA LoadedConnects ==
    ASSUME NEW conf, NEW dropped, Configuration(conf), Droppable(dropped),
           Bypassable(conf, dropped), NEW table, NEW keep, NEW n \in Nat, n >= Len(conf),
           LoadedUpTo(table, keep, conf, dropped, n)
    PROVE  Connects(table, conf, dropped)
<1>1. \A k \in DOMAIN conf : k <= n
    BY DEF Configuration
<1>2. \A k \in DOMAIN conf :
          conf[k].status \in DOMAIN Table(conf) /\ Table(conf)[conf[k].status] = conf[k].action
    BY TableEntry DEF Bypassable
<1>3. ASSUME NEW i \in DOMAIN conf, NEW k \in DOMAIN conf, EndsAt(conf, dropped, i, k)
      PROVE  conf[k].action = NextStage(conf, dropped, conf[i].status)
    <2>1. \A j, l \in DOMAIN conf :
              Follows(conf, dropped, j, l) =>
                  PassOver(conf, dropped, conf[j].action) = conf[l].action
        BY <1>2 DEF Follows, PassOver
    <2>2. PassOver(conf, dropped, conf[k].action) = conf[k].action
        BY <1>3 DEF EndsAt, PassOver
    <2>3. NextStage(conf, dropped, conf[i].status)
              = PassOver(conf, dropped, PassOver(conf, dropped, conf[i].action))
        BY <1>2 DEF NextStage
    <2> QED BY <1>3, <2>1, <2>2, <2>3 DEF EndsAt, Leads
<1>4. \A i \in DOMAIN conf :
          Begins(conf, dropped, i) <=> conf[i].status \notin {DoneStatus[stage] : stage \in dropped}
    BY DEF Begins
<1>5. \A s \in DOMAIN table :
          \E i, k \in DOMAIN conf : conf[i].status = s /\ EndsAt(conf, dropped, i, k)
    BY DEF LoadedUpTo
<1>6. \A i \in DOMAIN conf : Begins(conf, dropped, i) =>
          conf[i].status \in DOMAIN table
    BY <1>1, ChainEnds DEF LoadedUpTo
<1>7. DOMAIN table = DOMAIN Table(conf) \ {DoneStatus[stage] : stage \in dropped}
    <2>1. DOMAIN Table(conf) = {conf[k].status : k \in DOMAIN conf}
        BY DEF Table
    <2>2. ASSUME NEW s \in DOMAIN table
          PROVE  s \in DOMAIN Table(conf) \ {DoneStatus[stage] : stage \in dropped}
        <3>1. PICK i \in DOMAIN conf : conf[i].status = s /\ Begins(conf, dropped, i)
            BY <1>5 DEF EndsAt, Leads
        <3> QED BY <1>4, <2>1, <3>1
    <2>3. ASSUME NEW s \in DOMAIN Table(conf) \ {DoneStatus[stage] : stage \in dropped}
          PROVE  s \in DOMAIN table
        <3>1. PICK i \in DOMAIN conf : conf[i].status = s
            BY <2>1
        <3> QED BY <1>4, <1>6, <3>1
    <2> QED BY <2>2, <2>3
<1>8. \A s \in DOMAIN table : table[s] = NextStage(conf, dropped, s)
    <2>1. TAKE s \in DOMAIN table
    <2>2. PICK i \in DOMAIN conf, k \in DOMAIN conf :
              conf[i].status = s /\ EndsAt(conf, dropped, i, k)
        BY <1>5
    <2>3. table[s] = conf[k].action
        BY <1>1, <2>2 DEF LoadedUpTo
    <2> QED BY <1>3, <2>2, <2>3
<1> QED BY <1>7, <1>8 DEF Connects

---------------------------------------------------------------------------
(* The loops.                                                              *)

LoadingInv ==
    /\ loading = "install" => m_mapRemoveSteps = <<>>
    /\ Bypassable(installSteps, InstallDropped) =>
           IF loading = "install"
           THEN LoadedUpTo(m_mapInstallSteps, keepStatus, installSteps, InstallDropped, pos - 1)
           ELSE Connects(m_mapInstallSteps, installSteps, InstallDropped)
    /\ Bypassable(removeSteps, RemoveDropped) =>
           /\ loading = "remove" =>
                  LoadedUpTo(m_mapRemoveSteps, keepStatus, removeSteps, RemoveDropped, pos - 1)
           /\ loading = "done" => Connects(m_mapRemoveSteps, removeSteps, RemoveDropped)

\* Before the first entry nothing has been loaded, whatever keepStatus is.
LEMMA NothingLoaded ==
    ASSUME NEW conf, NEW dropped, Configuration(conf), NEW keep
    PROVE  LoadedUpTo(<<>>, keep, conf, dropped, 0)
<1>1. DOMAIN <<>> = {}
    OBVIOUS
<1>2. \A k \in DOMAIN conf : ~(k <= 0)
    BY DEF Configuration
<1> QED BY <1>1, <1>2 DEF LoadedUpTo

\* What is dropped on an image, and the arrays it is dropped from.
LEMMA ImageOK ==
    ASSUME TypeOK
    PROVE  /\ Configuration(installSteps) /\ Configuration(removeSteps)
           /\ Droppable(InstallDropped) /\ Droppable(RemoveDropped)
<1>1. Configuration(installSteps) /\ Configuration(removeSteps)
    BY ConfsAssumption DEF TypeOK, Configuration
<1>2. Droppable(InstallDropped) /\ Droppable(RemoveDropped)
    BY DEF Droppable, InstallDropped, RemoveDropped
<1> QED BY <1>1, <1>2

\* The settings do not change while the tables are loaded.
LEMMA NextKeepsTypeOK == TypeOK /\ [Next]_vars => TypeOK'
<1> SUFFICES ASSUME TypeOK, [Next]_vars
             PROVE  TypeOK'
    OBVIOUS
<1>1. \A k \in DOMAIN installSteps : installSteps[k].status \in TaskStep
    BY ImageOK, EntriesAreSteps
<1>2. \A k \in DOMAIN removeSteps : removeSteps[k].status \in TaskStep
    BY ImageOK, EntriesAreSteps
<1>3. CASE LoadInstallStep
    <2>1. installSteps[pos].status \in TaskStep
        BY <1>1, <1>3, ImageOK DEF LoadInstallStep, TypeOK, Configuration
    <2>2. keepStatus' \in TaskStep \cup {NoStatus}
        BY <1>3, <2>1 DEF LoadInstallStep, InstallEntry, Read, Bypass, Store, TypeOK
    <2> QED BY <1>3, <2>2 DEF LoadInstallStep, TypeOK, settings
<1>4. CASE LoadRemoveStep
    <2>1. removeSteps[pos].status \in TaskStep
        BY <1>2, <1>4, ImageOK DEF LoadRemoveStep, TypeOK, Configuration
    <2>2. keepStatus' \in TaskStep \cup {NoStatus}
        BY <1>4, <2>1 DEF LoadRemoveStep, RemoveEntry, Read, Bypass, Store, TypeOK
    <2> QED BY <1>4, <2>2 DEF LoadRemoveStep, TypeOK, settings
<1>5. CASE EndOfArray
    BY <1>5 DEF EndOfArray, TypeOK, settings
<1>6. CASE UNCHANGED vars
    BY <1>6 DEF vars, TypeOK, settings
<1> QED BY <1>3, <1>4, <1>5, <1>6 DEF Next

\* Each iteration loads the entry it is at.
LEMMA NextKeepsLoadingInv == TypeOK /\ LoadingInv /\ [Next]_vars => LoadingInv'
<1> SUFFICES ASSUME TypeOK, LoadingInv, [Next]_vars
             PROVE  LoadingInv'
    OBVIOUS
<1>1. InstallDropped' = InstallDropped /\ RemoveDropped' = RemoveDropped
      /\ UNCHANGED settings
    <2>1. UNCHANGED settings
        BY DEF Next, LoadInstallStep, LoadRemoveStep, EndOfArray, vars
    <2> QED BY <2>1 DEF settings, InstallDropped, RemoveDropped
<1>2. UNCHANGED <<installSteps, removeSteps>>
    BY <1>1 DEF settings
<1>3. ASSUME NEW n \in Nat
      PROVE  (n + 1) - 1 = n /\ (n # 0 => (n - 1 \in Nat /\ (n - 1) + 1 = n))
    OBVIOUS
<1>4. pos \in Nat /\ pos # 0
    BY DEF TypeOK
<1>5. CASE LoadInstallStep
    <2>1. /\ loading = "install" /\ loading' = "install" /\ pos' - 1 = pos
          /\ pos \in DOMAIN installSteps
          /\ UNCHANGED m_mapRemoveSteps
        BY <1>3, <1>4, <1>5, ImageOK DEF LoadInstallStep, Configuration
    <2>2. ASSUME Bypassable(installSteps, InstallDropped)
          PROVE  LoadedUpTo(m_mapInstallSteps', keepStatus', installSteps, InstallDropped, pos)
        <3> DEFINE loaded == InstallEntry(smack,
                                 [keepStatus |-> keepStatus, table |-> m_mapInstallSteps],
                                 installSteps[pos])
        <3>1. keepStatus' = loaded.keepStatus /\ m_mapInstallSteps' = loaded.table
            BY <1>5 DEF LoadInstallStep
        <3>2. loaded = Effect(installSteps, InstallDropped,
                              [keepStatus |-> keepStatus, table |-> m_mapInstallSteps], pos)
            BY <2>1, <2>2, ImageOK, InstallEffect DEF TypeOK
        <3>3. LoadedUpTo(m_mapInstallSteps, keepStatus, installSteps, InstallDropped, pos - 1)
            BY <2>1, <2>2 DEF LoadingInv
        <3> HIDE DEF loaded
        <3>4. LoadedUpTo(loaded.table, loaded.keepStatus, installSteps, InstallDropped, (pos - 1) + 1)
            BY <1>3, <1>4, <2>1, <2>2, <3>2, <3>3, ImageOK, EntryLoads
        <3> QED BY <1>3, <1>4, <3>1, <3>4
    <2> QED BY <1>1, <1>2, <2>1, <2>2 DEF LoadingInv
<1>6. CASE LoadRemoveStep
    <2>1. /\ loading = "remove" /\ loading' = "remove" /\ pos' - 1 = pos
          /\ pos \in DOMAIN removeSteps
          /\ UNCHANGED m_mapInstallSteps
        BY <1>3, <1>4, <1>6, ImageOK DEF LoadRemoveStep, Configuration
    <2>2. ASSUME Bypassable(removeSteps, RemoveDropped)
          PROVE  LoadedUpTo(m_mapRemoveSteps', keepStatus', removeSteps, RemoveDropped, pos)
        <3> DEFINE loaded == RemoveEntry(jail, smack,
                                 [keepStatus |-> keepStatus, table |-> m_mapRemoveSteps],
                                 removeSteps[pos])
        <3>1. keepStatus' = loaded.keepStatus /\ m_mapRemoveSteps' = loaded.table
            BY <1>6 DEF LoadRemoveStep
        <3>2. LoadedUpTo(m_mapRemoveSteps, keepStatus, removeSteps, RemoveDropped, pos - 1)
            BY <2>1, <2>2 DEF LoadingInv
        <3>3. ~Begins(removeSteps, RemoveDropped, pos) =>
                  \A stage \in RemoveDropped : keepStatus # DoneStatus[stage]
            <4>1. PICK i \in DOMAIN removeSteps : Leads(removeSteps, RemoveDropped, i, pos)
                BY <2>1, <2>2, ImageOK, ChainOf
            <4>2. Source(removeSteps, RemoveDropped, keepStatus, (pos - 1) + 1)
                      = removeSteps[i].status
                BY <1>3, <1>4, <2>1, <2>2, <3>2, <4>1, ImageOK, SourceOfChain
            <4> QED BY <1>3, <1>4, <4>1, <4>2 DEF Source, Leads, Begins
        <3>4. loaded = Effect(removeSteps, RemoveDropped,
                              [keepStatus |-> keepStatus, table |-> m_mapRemoveSteps], pos)
            BY <2>1, <2>2, <3>3, ImageOK, RemoveEffect DEF TypeOK
        <3> HIDE DEF loaded
        <3>5. LoadedUpTo(loaded.table, loaded.keepStatus, removeSteps, RemoveDropped, (pos - 1) + 1)
            BY <1>3, <1>4, <2>1, <2>2, <3>2, <3>4, ImageOK, EntryLoads
        <3> QED BY <1>3, <1>4, <3>1, <3>5
    <2> QED BY <1>1, <1>2, <2>1, <2>2 DEF LoadingInv
<1>7. CASE EndOfArray
    <2>1. pos - 1 \in Nat /\ pos' - 1 = 0 /\ UNCHANGED <<keepStatus, m_mapInstallSteps, m_mapRemoveSteps>>
        BY <1>3, <1>4, <1>7 DEF EndOfArray
    <2>2. CASE loading = "install" /\ pos > Len(installSteps) /\ loading' = "remove"
        <3>1. pos - 1 >= Len(installSteps)
            BY <1>4, <2>2, ImageOK DEF Configuration
        <3>2. Bypassable(installSteps, InstallDropped) =>
                  Connects(m_mapInstallSteps, installSteps, InstallDropped)
            BY <2>1, <2>2, <3>1, ImageOK, LoadedConnects DEF LoadingInv
        <3>3. LoadedUpTo(m_mapRemoveSteps, keepStatus, removeSteps, RemoveDropped, 0)
            BY <2>2, ImageOK, NothingLoaded DEF LoadingInv
        <3> QED BY <1>1, <1>2, <2>1, <2>2, <3>2, <3>3 DEF LoadingInv
    <2>3. CASE loading = "remove" /\ pos > Len(removeSteps) /\ loading' = "done"
        <3>1. pos - 1 >= Len(removeSteps)
            BY <1>4, <2>3, ImageOK DEF Configuration
        <3>2. Bypassable(removeSteps, RemoveDropped) =>
                  Connects(m_mapRemoveSteps, removeSteps, RemoveDropped)
            BY <2>1, <2>3, <3>1, ImageOK, LoadedConnects DEF LoadingInv
        <3> QED BY <1>1, <1>2, <2>1, <2>3, <3>2 DEF LoadingInv
    <2> QED BY <1>7, <2>2, <2>3 DEF EndOfArray
<1>8. CASE UNCHANGED vars
    BY <1>1, <1>2, <1>8 DEF vars, LoadingInv
<1> QED BY <1>5, <1>6, <1>7, <1>8 DEF Next

\* The loops keep both.
LEMMA TablesAreLoading == Spec => [](TypeOK /\ LoadingInv)
<1>1. Init => TypeOK /\ LoadingInv
    <2> SUFFICES ASSUME Init
                 PROVE  TypeOK /\ LoadingInv
        OBVIOUS
    <2>1. TypeOK
        BY DEF Init, TypeOK
    <2>2. pos - 1 = 0 /\ loading = "install"
        BY DEF Init
    <2>3. LoadedUpTo(m_mapInstallSteps, keepStatus, installSteps, InstallDropped, pos - 1)
        BY <2>1, <2>2, ImageOK, NothingLoaded DEF Init
    <2> QED BY <2>1, <2>2, <2>3 DEF LoadingInv, Init
<1>2. TypeOK /\ LoadingInv /\ [Next]_vars => (TypeOK /\ LoadingInv)'
    BY NextKeepsTypeOK, NextKeepsLoadingInv
<1> QED BY <1>1, <1>2, PTL DEF Spec

(***************************************************************************)
(* For every configuration file whose arrays Bypassable allows, and every  *)
(* kind of image, the loaded tables run exactly the configured stages the  *)
(* image supports.  The entries after the dropped stages have to stand     *)
(* after them; what the loops make of other orders is left to TLC          *)
(* (NeverJumpsAhead).                                                      *)
(***************************************************************************)
THEOREM SupportedStagesRun == Spec => []RunsSupportedStages
<1>1. TypeOK /\ LoadingInv => RunsSupportedStages
    BY DEF LoadingInv, RunsSupportedStages
<1> QED BY <1>1, TablesAreLoading, PTL

---------------------------------------------------------------------------
(* The shipped configuration file.                                         *)

\* What an image leaves of the install array starts the stages in order.
LEMMA ShippedInstalls ==
    ASSUME NEW table, smack \in BOOLEAN, Connects(table, ShippedInstallSteps, InstallDropped)
    PROVE  IsStepTable(table) /\ EndsAtErrors(table) /\ InstallsInOrder(table)
<1> DEFINE conf == ShippedInstallSteps
<1>1. DOMAIN conf = 1 .. 7
    BY DEF ShippedInstallSteps, Entry
<1>2. /\ conf[1] = Entry("Unknown", "IpkParseNeeded")
      /\ conf[2] = Entry("IpkParseComplete", "GetIpkInfoNeeded")
      /\ conf[3] = Entry("GetIpkInfoComplete", "AppCloseNeeded")
      /\ conf[4] = Entry("AppCloseComplete", "IpkInstallNeeded")
      /\ conf[5] = Entry("IpkInstallComplete", "ServiceInstallNeeded")
      /\ conf[6] = Entry("ServiceInstallComplete", "InstallSmackNeeded")
      /\ conf[7] = Entry("InstallSmackComplete", "InstallComplete")
    BY DEF ShippedInstallSteps
<1>3. \A k \in DOMAIN conf :
          conf[k].status \in DOMAIN Table(conf) /\ Table(conf)[conf[k].status] = conf[k].action
    <2>1. \A k, l \in DOMAIN conf : conf[k].status = conf[l].status => k = l
        BY <1>1, <1>2 DEF Entry
    <2> QED BY <2>1, TableEntry
<1>4. DOMAIN Table(conf) = {conf[k].status : k \in DOMAIN conf}
    BY DEF Table
<1> HIDE DEF conf
<1>5. DOMAIN Table(conf) =
          {"Unknown", "IpkParseComplete", "GetIpkInfoComplete", "AppCloseComplete",
           "IpkInstallComplete", "ServiceInstallComplete", "InstallSmackComplete"}
    BY <1>1, <1>2, <1>4 DEF Entry
<1>6. /\ Table(conf)["Unknown"] = "IpkParseNeeded"
      /\ Table(conf)["IpkParseComplete"] = "GetIpkInfoNeeded"
      /\ Table(conf)["GetIpkInfoComplete"] = "AppCloseNeeded"
      /\ Table(conf)["AppCloseComplete"] = "IpkInstallNeeded"
      /\ Table(conf)["IpkInstallComplete"] = "ServiceInstallNeeded"
      /\ Table(conf)["ServiceInstallComplete"] = "InstallSmackNeeded"
      /\ Table(conf)["InstallSmackComplete"] = "InstallComplete"
    BY <1>1, <1>2, <1>3 DEF Entry
<1>7. /\ DOMAIN table = DOMAIN Table(conf) \ {DoneStatus[stage] : stage \in InstallDropped}
      /\ \A s \in DOMAIN table :
             table[s] = PassOver(conf, InstallDropped, PassOver(conf, InstallDropped, Table(conf)[s]))
    BY DEF Connects, NextStage, conf
<1>8. CASE smack
    <2>1. InstallDropped = {}
        BY <1>8 DEF InstallDropped
    <2>2. DOMAIN table = DOMAIN Table(conf) /\ \A s \in DOMAIN table : table[s] = Table(conf)[s]
        BY <1>7, <2>1 DEF PassOver
    <2>3. IsStepTable(table) /\ EndsAtErrors(table)
        BY <1>5, <1>6, <2>2
        DEF IsStepTable, EndsAtErrors, ErrorSteps, TaskStep, StepFactory
    <2>4. StagesChain(table, InstallStages, "InstallComplete")
        BY <1>5, <1>6, <2>2 DEF StagesChain, InstallStages, DoneStatus
    <2> QED BY <1>5, <1>6, <2>2, <2>3, <2>4 DEF InstallsInOrder
<1>9. CASE ~smack
    <2>1. InstallDropped = {"InstallSmackNeeded"}
        BY <1>9 DEF InstallDropped
    <2>2. DOMAIN table = DOMAIN Table(conf) \ {"InstallSmackComplete"}
        BY <1>7, <2>1 DEF DoneStatus
    <2>3. \A s \in DOMAIN table :
              table[s] = IF s = "ServiceInstallComplete" THEN "InstallComplete" ELSE Table(conf)[s]
        <3>1. \A stage : PassOver(conf, InstallDropped, stage) =
                  IF stage = "InstallSmackNeeded" THEN "InstallComplete" ELSE stage
            BY <1>6, <2>1 DEF PassOver, DoneStatus
        <3> QED BY <1>5, <1>6, <1>7, <2>2, <3>1
    <2>4. IsStepTable(table) /\ EndsAtErrors(table)
        BY <1>5, <1>6, <2>2, <2>3
        DEF IsStepTable, EndsAtErrors, ErrorSteps, TaskStep, StepFactory
    <2>5. StagesChain(table, InstallStages, "InstallComplete")
        BY <1>5, <1>6, <2>2, <2>3 DEF StagesChain, InstallStages, DoneStatus
    <2> QED BY <1>5, <1>6, <2>2, <2>3, <2>4, <2>5 DEF InstallsInOrder
<1> QED BY <1>8, <1>9

\* What an image leaves of the remove array does so, too.
LEMMA ShippedRemoves ==
    ASSUME NEW table, jail \in BOOLEAN, smack \in BOOLEAN,
           Connects(table, ShippedRemoveSteps, RemoveDropped)
    PROVE  IsStepTable(table) /\ EndsAtErrors(table) /\ RemovesInOrder(table)
<1> DEFINE conf == ShippedRemoveSteps
<1>1. DOMAIN conf = 1 .. 8
    BY DEF ShippedRemoveSteps, Entry
<1>2. /\ conf[1] = Entry("Unknown", "AppCloseNeeded")
      /\ conf[2] = Entry("AppCloseComplete", "RemoveNeeded")
      /\ conf[3] = Entry("RemoveStarted", "RemoveJailNeeded")
      /\ conf[4] = Entry("RemoveJailComplete", "RemoveSmackNeeded")
      /\ conf[5] = Entry("RemoveSmackComplete", "ServiceUninstallNeeded")
      /\ conf[6] = Entry("ServiceUninstallComplete", "IpkRemoveNeeded")
      /\ conf[7] = Entry("IpkRemoveComplete", "DataRemoveNeeded")
      /\ conf[8] = Entry("DataRemoveComplete", "RemoveComplete")
    BY DEF ShippedRemoveSteps
<1>3. \A k \in DOMAIN conf :
          conf[k].status \in DOMAIN Table(conf) /\ Table(conf)[conf[k].status] = conf[k].action
    <2>1. \A k, l \in DOMAIN conf : conf[k].status = conf[l].status => k = l
        BY <1>1, <1>2 DEF Entry
    <2> QED BY <2>1, TableEntry
<1>4. DOMAIN Table(conf) = {conf[k].status : k \in DOMAIN conf}
    BY DEF Table
<1> HIDE DEF conf
<1>5. DOMAIN Table(conf) =
          {"Unknown", "AppCloseComplete", "RemoveStarted", "RemoveJailComplete",
           "RemoveSmackComplete", "ServiceUninstallComplete", "IpkRemoveComplete",
           "DataRemoveComplete"}
    BY <1>1, <1>2, <1>4 DEF Entry
<1>6. /\ Table(conf)["Unknown"] = "AppCloseNeeded"
      /\ Table(conf)["AppCloseComplete"] = "RemoveNeeded"
      /\ Table(conf)["RemoveStarted"] = "RemoveJailNeeded"
      /\ Table(conf)["RemoveJailComplete"] = "RemoveSmackNeeded"
      /\ Table(conf)["RemoveSmackComplete"] = "ServiceUninstallNeeded"
      /\ Table(conf)["ServiceUninstallComplete"] = "IpkRemoveNeeded"
      /\ Table(conf)["IpkRemoveComplete"] = "DataRemoveNeeded"
      /\ Table(conf)["DataRemoveComplete"] = "RemoveComplete"
    BY <1>1, <1>2, <1>3 DEF Entry
<1>7. /\ DOMAIN table = DOMAIN Table(conf) \ {DoneStatus[stage] : stage \in RemoveDropped}
      /\ \A s \in DOMAIN table :
             table[s] = PassOver(conf, RemoveDropped, PassOver(conf, RemoveDropped, Table(conf)[s]))
    BY DEF Connects, NextStage, conf
<1>8. /\ "RemoveJailNeeded" \in RemoveDropped <=> ~jail
      /\ "RemoveSmackNeeded" \in RemoveDropped <=> ~smack
      /\ RemoveDropped \subseteq {"RemoveJailNeeded", "RemoveSmackNeeded"}
    BY DEF RemoveDropped
<1>9. \A s : s \in DOMAIN table <=>
          /\ s \in DOMAIN Table(conf)
          /\ s = "RemoveJailComplete" => jail
          /\ s = "RemoveSmackComplete" => smack
    <2>1. {DoneStatus[stage] : stage \in RemoveDropped}
              = (IF jail THEN {} ELSE {"RemoveJailComplete"})
                \cup (IF smack THEN {} ELSE {"RemoveSmackComplete"})
        BY <1>8 DEF DoneStatus
    <2> QED BY <1>7, <2>1
<1>10. \A s \in DOMAIN table :
           table[s] = CASE s = "RemoveStarted" ->
                               IF jail THEN "RemoveJailNeeded"
                               ELSE IF smack THEN "RemoveSmackNeeded"
                               ELSE "ServiceUninstallNeeded"
                        [] s = "RemoveJailComplete" ->
                               IF smack THEN "RemoveSmackNeeded" ELSE "ServiceUninstallNeeded"
                        [] OTHER -> Table(conf)[s]
    <2>1. \A stage : PassOver(conf, RemoveDropped, stage) =
              IF ~jail /\ stage = "RemoveJailNeeded" THEN "RemoveSmackNeeded"
              ELSE IF ~smack /\ stage = "RemoveSmackNeeded" THEN "ServiceUninstallNeeded"
              ELSE stage
        <3>1. /\ DoneStatus["RemoveJailNeeded"] = "RemoveJailComplete"
              /\ DoneStatus["RemoveSmackNeeded"] = "RemoveSmackComplete"
            BY DEF DoneStatus
        <3> QED BY <1>6, <1>8, <3>1 DEF PassOver
    <2> QED BY <1>5, <1>6, <1>7, <1>9, <2>1
<1>11. IsStepTable(table) /\ EndsAtErrors(table)
    BY <1>5, <1>6, <1>9, <1>10 DEF IsStepTable, EndsAtErrors, ErrorSteps, TaskStep, StepFactory
<1>12. StagesChain(table, RemoveStages, "RemoveComplete")
    BY <1>5, <1>6, <1>9, <1>10 DEF StagesChain, RemoveStages, DoneStatus
<1> QED BY <1>5, <1>6, <1>9, <1>10, <1>11, <1>12 DEF RemovesInOrder

\* Every optional stage can be dropped from it.
LEMMA ShippedIsBypassable ==
    ASSUME jail \in BOOLEAN, smack \in BOOLEAN
    PROVE  /\ Bypassable(ShippedInstallSteps, InstallDropped)
           /\ Bypassable(ShippedRemoveSteps, RemoveDropped)
<1>1. DOMAIN ShippedInstallSteps = 1 .. 7
    BY DEF ShippedInstallSteps, Entry
<1>2. Bypassable(ShippedInstallSteps, InstallDropped)
    BY <1>1 DEF ShippedInstallSteps, Entry, Bypassable, InstallDropped, DoneStatus
<1>3. DOMAIN ShippedRemoveSteps = 1 .. 8
    BY DEF ShippedRemoveSteps, Entry
<1>4. Bypassable(ShippedRemoveSteps, RemoveDropped)
    BY <1>3 DEF ShippedRemoveSteps, Entry, Bypassable, RemoveDropped, DoneStatus
<1> QED BY <1>2, <1>4

(***************************************************************************)
(* What StepSettings makes of the shipped file on every kind of image is   *)
(* what AppInstaller assumes of the tables it is given: they map statuses  *)
(* to stages, do not continue from a failure, and start the stages of a    *)
(* command in order up to the terminal step.                               *)
(***************************************************************************)
THEOREM ShippedTablesAreInOrder ==
    Spec =>
        [](loading = "done" /\ installSteps = ShippedInstallSteps
               /\ removeSteps = ShippedRemoveSteps =>
           /\ IsStepTable(m_mapInstallSteps) /\ IsStepTable(m_mapRemoveSteps)
           /\ EndsAtErrors(m_mapInstallSteps) /\ EndsAtErrors(m_mapRemoveSteps)
           /\ InstallsInOrder(m_mapInstallSteps) /\ RemovesInOrder(m_mapRemoveSteps))
<1>1. TypeOK /\ RunsSupportedStages =>
          (loading = "done" /\ installSteps = ShippedInstallSteps
               /\ removeSteps = ShippedRemoveSteps =>
           /\ IsStepTable(m_mapInstallSteps) /\ IsStepTable(m_mapRemoveSteps)
           /\ EndsAtErrors(m_mapInstallSteps) /\ EndsAtErrors(m_mapRemoveSteps)
           /\ InstallsInOrder(m_mapInstallSteps) /\ RemovesInOrder(m_mapRemoveSteps))
    BY ShippedIsBypassable, ShippedInstalls, ShippedRemoves DEF TypeOK, RunsSupportedStages
<1> QED BY <1>1, TablesAreLoading, SupportedStagesRun, PTL

=============================================================================
