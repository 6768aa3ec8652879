---------------------------- MODULE CommandRegistry ----------------------------
(***************************************************************************)
(* What AppInstaller promises its callers, without tasks, steps or a main  *)
(* loop: an id has at most one command at a time, a command ends once, its *)
(* entry is released only after its end, and when a failed install is      *)
(* undone nobody gets in between the release of its entry and the command  *)
(* that undoes it.                                                         *)
(***************************************************************************)
CONSTANT AppId

VARIABLES
    phase,      \* of the command that holds the entry of an id
    owed        \* ids whose failed install is still to be undone

vars == <<phase, owed>>

TypeOK ==
    /\ phase \in [AppId -> {"idle", "active", "ended"}]
    /\ owed \subseteq AppId

Init ==
    /\ phase = [a \in AppId |-> "idle"]
    /\ owed = {}

\* The failed install of some id is released and not undone yet.
Undoing == \E a \in owed : phase[a] = "idle"

\* A client's command.
Accept(a) ==
    /\ ~Undoing
    /\ phase[a] = "idle"
    /\ phase' = [phase EXCEPT ![a] = "active"]
    /\ UNCHANGED owed

\* The command ends; a failed install may have something to undo.
End(a) ==
    /\ ~Undoing
    /\ phase[a] = "active"
    /\ phase' = [phase EXCEPT ![a] = "ended"]
    /\ owed' \in {owed, owed \cup {a}}

Release(a) ==
    /\ ~Undoing
    /\ phase[a] = "ended"
    /\ phase' = [phase EXCEPT ![a] = "idle"]
    /\ UNCHANGED owed

\* The command that undoes the failed install of a starts.
Undo(a) ==
    /\ a \in owed /\ phase[a] = "idle"
    /\ phase' = [phase EXCEPT ![a] = "active"]
    /\ owed' = owed \ {a}

\* The daemon restarts: there is no record of any command.
Forget ==
    /\ phase' = [a \in AppId |-> "idle"]
    /\ owed' = {}

Next ==
    \/ \E a \in AppId : Accept(a) \/ End(a) \/ Release(a) \/ Undo(a)
    \/ Forget

Spec == Init /\ [][Next]_vars

=============================================================================
