------------------------------- MODULE AppClosing -------------------------------
(***************************************************************************)
(* What AppCloseStep may expect of the chain of calls it runs, as three    *)
(* replies: is the app known, is it locked now, is it closed now.          *)
(***************************************************************************)
VARIABLES
    sendMayFail,    \* whether a luna call may fail to be sent
    removes,        \* whether the command is a remove
    stage,          \* the reply that is waited for, then "closed" or "failed"
    appLocked

vars == <<sendMayFail, removes, stage, appLocked>>

Init == sendMayFail \in BOOLEAN /\ removes \in BOOLEAN /\ stage = "closeInfo" /\ appLocked = FALSE

\* Known and to be locked, or unknown; an app that is not removable is not removed.
Info ==
    /\ stage = "closeInfo"
    /\ stage' \in {"closeLock", "closeApp"} \cup IF removes \/ sendMayFail THEN {"failed"} ELSE {}
    /\ UNCHANGED <<sendMayFail, removes, appLocked>>

Lock ==
    /\ stage = "closeLock"
    /\ \/ stage' = "closeApp" /\ appLocked' = TRUE
       \/ stage' = "failed" /\ UNCHANGED appLocked
    /\ UNCHANGED <<sendMayFail, removes>>

Close ==
    /\ stage = "closeApp"
    /\ stage' \in {"closed", "failed"}
    /\ UNCHANGED <<sendMayFail, removes, appLocked>>

Next == Info \/ Lock \/ Close

Spec == Init /\ [][Next]_vars

=============================================================================
