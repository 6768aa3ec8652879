------------------------------ MODULE StepSettings ------------------------------
(***************************************************************************)
(* StepSettings::loadStepConfigure: reading the two step tables.  On an    *)
(* image without a jail or without SMACK the entry that would start that   *)
(* stage is dropped and the entry after the stage takes over its status,   *)
(* so that the chain stays connected.                                      *)
(*                                                                         *)
(* One action is one iteration of one of the two loops.  keepStatus, the   *)
(* status of the entry dropped last, is shared by both loops and never     *)
(* reset.                                                                  *)
(***************************************************************************)
EXTENDS Naturals, StepTables, TaskSteps

CONSTANTS
    InstallConfs,   \* the "installSteps" arrays a configuration file may hold
    RemoveConfs     \* the "removeSteps" arrays

ASSUME ConfsAssumption ==
    \A conf \in InstallConfs \cup RemoveConfs : conf \in Seq([status : TaskStep, action : TaskStep])

VARIABLES
    jail, smack,                            \* Settings::isJailMode, isSmackMode
    installSteps, removeSteps,              \* the configuration file
    pos,                                    \* the loop counter i
    loading,                                \* the loop that runs
    keepStatus,
    m_mapInstallSteps, m_mapRemoveSteps

settings == <<jail, smack, installSteps, removeSteps>>
vars == <<settings, pos, loading, keepStatus, m_mapInstallSteps, m_mapRemoveSteps>>

Init ==
    /\ jail \in BOOLEAN /\ smack \in BOOLEAN
    /\ installSteps \in InstallConfs /\ removeSteps \in RemoveConfs
    /\ pos = 1 /\ loading = "install"
    /\ keepStatus = NoStatus
    /\ m_mapInstallSteps = <<>> /\ m_mapRemoveSteps = <<>>

LoadInstallStep ==
    /\ loading = "install" /\ pos <= Len(installSteps)
    /\ LET loaded == InstallEntry(smack,
                         [keepStatus |-> keepStatus, table |-> m_mapInstallSteps],
                         installSteps[pos])
       IN  keepStatus' = loaded.keepStatus /\ m_mapInstallSteps' = loaded.table
    /\ pos' = pos + 1
    /\ UNCHANGED <<settings, loading, m_mapRemoveSteps>>

LoadRemoveStep ==
    /\ loading = "remove" /\ pos <= Len(removeSteps)
    /\ LET loaded == RemoveEntry(jail, smack,
                         [keepStatus |-> keepStatus, table |-> m_mapRemoveSteps],
                         removeSteps[pos])
       IN  keepStatus' = loaded.keepStatus /\ m_mapRemoveSteps' = loaded.table
    /\ pos' = pos + 1
    /\ UNCHANGED <<settings, loading, m_mapInstallSteps>>

EndOfArray ==
    /\ \/ loading = "install" /\ pos > Len(installSteps) /\ loading' = "remove"
       \/ loading = "remove" /\ pos > Len(removeSteps) /\ loading' = "done"
    /\ pos' = 1
    /\ UNCHANGED <<settings, keepStatus, m_mapInstallSteps, m_mapRemoveSteps>>

Next == LoadInstallStep \/ LoadRemoveStep \/ EndOfArray

Spec == Init /\ [][Next]_vars

---------------------------------------------------------------------------
(* The reference: the stage that follows a status.                         *)

\* The stages the loops drop on this image.
InstallDropped == IF smack THEN {} ELSE {"InstallSmackNeeded"}
RemoveDropped ==
    (IF jail THEN {} ELSE {"RemoveJailNeeded"}) \cup (IF smack THEN {} ELSE {"RemoveSmackNeeded"})

(***************************************************************************)
(* The arrays from which one keepStatus and one pass can drop the stages:  *)
(* a status occurs once, a dropped stage is configured before the entry    *)
(* that follows it, with no other dropped one in between, and has such an  *)
(* entry.  The loop tests the jail first, so that RemoveJail must not be   *)
(* the stage that follows RemoveSmack.                                     *)
(***************************************************************************)
Bypassable(conf, dropped) ==
    /\ \A k, l \in DOMAIN conf : conf[k].status = conf[l].status => k = l
    /\ \A k \in DOMAIN conf : conf[k].action \in dropped =>
           \E l \in DOMAIN conf :
               /\ k < l /\ conf[l].status = DoneStatus[conf[k].action]
               /\ \A i \in DOMAIN conf : k < i /\ i < l => conf[i].action \notin dropped
               /\ conf[k].action = "RemoveSmackNeeded" => conf[l].action # "RemoveJailNeeded"
    /\ \A l \in DOMAIN conf : \A stage \in dropped : conf[l].status = DoneStatus[stage] =>
           \E k \in DOMAIN conf : conf[k].action = stage

Table(conf) ==
    [s \in {conf[k].status : k \in DOMAIN conf} |->
        (CHOOSE e \in Range(conf) : e.status = s).action]

\* A dropped stage is passed over.
PassOver(conf, dropped, stage) ==
    IF stage \in dropped THEN Table(conf)[DoneStatus[stage]] ELSE stage

\* There are two stages that can be dropped from an array, one after the other.
NextStage(conf, dropped, s) ==
    PassOver(conf, dropped, PassOver(conf, dropped, Table(conf)[s]))

TypeOK ==
    /\ jail \in BOOLEAN /\ smack \in BOOLEAN
    /\ installSteps \in InstallConfs /\ removeSteps \in RemoveConfs
    /\ loading \in {"install", "remove", "done"}
    /\ pos \in Nat \ {0}
    /\ keepStatus \in TaskStep \cup {NoStatus}

\* The table is what the image leaves of the array.
Connects(table, conf, dropped) ==
    /\ DOMAIN table = DOMAIN Table(conf) \ {DoneStatus[stage] : stage \in dropped}
    /\ \A s \in DOMAIN table : table[s] = NextStage(conf, dropped, s)

(***************************************************************************)
(* From an array that Bypassable allows, the loops leave a table that runs *)
(* exactly the configured stages the image supports, in the configured     *)
(* order and up to the terminal step: from each status that can occur the  *)
(* next stage is the configured one or the first supported one behind it.  *)
(* Dropping two adjacent stages (RemoveJail, RemoveSmack) through the one  *)
(* shared keepStatus neither loses a later stage nor disconnects the       *)
(* chain.  Of other orders of the entries this says nothing: many of them  *)
(* disconnect it.                                                          *)
(***************************************************************************)
RunsSupportedStages ==
    loading = "done" =>
        /\ Bypassable(installSteps, InstallDropped) =>
               Connects(m_mapInstallSteps, installSteps, InstallDropped)
        /\ Bypassable(removeSteps, RemoveDropped) =>
               Connects(m_mapRemoveSteps, removeSteps, RemoveDropped)

\* Every status occurs once, every dropped stage has an entry after it, and the dropped stages
\* follow each other in the chain; the entries may stand in any order.
DropsOneStretch(conf, dropped) ==
    LET configured == {stage \in dropped : \E k \in DOMAIN conf : conf[k].action = stage}
    IN  /\ \A k, l \in DOMAIN conf : conf[k].status = conf[l].status => k = l
        /\ \A stage \in dropped : DoneStatus[stage] \in DOMAIN Table(conf) <=> stage \in configured
        /\ \A A, B \in configured :
               A = B \/ Table(conf)[DoneStatus[A]] = B \/ Table(conf)[DoneStatus[B]] = A

\* The entries the loop need not touch are in the table; where another has got in, it is the right one.
StopsAtWorst(table, conf, dropped) ==
    LET reached == DOMAIN Table(conf) \ {DoneStatus[stage] : stage \in dropped}
    IN  /\ \A s \in reached : Table(conf)[s] \notin dropped => s \in DOMAIN table
        /\ \A s \in reached \cap DOMAIN table : table[s] = NextStage(conf, dropped, s)

(***************************************************************************)
(* In whatever order the entries stand, with the status that the loop over *)
(* installSteps left in keepStatus too: as long as no supported stage      *)
(* stands between the dropped ones, and that status is not one of a        *)
(* remove, a table that is not connected lacks an entry, so that a command *)
(* stops there, and never starts a later stage in place of a supported     *)
(* one (the ipk is not removed before its services are).                   *)
(***************************************************************************)
NeverJumpsAhead ==
    loading = "done" =>
        /\ DropsOneStretch(installSteps, InstallDropped) =>
               StopsAtWorst(m_mapInstallSteps, installSteps, InstallDropped)
        /\ DropsOneStretch(removeSteps, RemoveDropped)
           /\ (\A k \in DOMAIN installSteps : installSteps[k].action \in InstallDropped =>
                   installSteps[k].status \notin DOMAIN Table(removeSteps)) =>
               StopsAtWorst(m_mapRemoveSteps, removeSteps, RemoveDropped)

=============================================================================
