----------------------------- MODULE MCStepSettings -----------------------------
(***************************************************************************)
(* Configuration files for TLC: the shipped arrays with the entries around *)
(* the optional stages in every order, and arrays that have the optional   *)
(* stages at other places of the chain.                                    *)
(***************************************************************************)
EXTENDS StepSettings, FiniteSets

\* The array with the entries at first .. last in every order.
Shuffled(conf, first, last) ==
    {SubSeq(conf, 1, first - 1)
        \o [k \in 1 .. (last - first + 1) |-> conf[p[k + first - 1]]]
        \o SubSeq(conf, last + 1, Len(conf)) : p \in Permutations(first .. last)}

\* The shipped remove steps with the stages between RemoveNeeded and IpkRemoveNeeded in every order.
Rechained ==
    LET stages == <<"RemoveJailNeeded", "RemoveSmackNeeded", "ServiceUninstallNeeded">>
    IN  {SubSeq(ShippedRemoveSteps, 1, 2)
            \o [k \in 1 .. 4 |->
                   Entry(IF k = 1 THEN "RemoveStarted" ELSE DoneStatus[stages[p[k - 1]]],
                         IF k = 4 THEN "IpkRemoveNeeded" ELSE stages[p[k]])]
            \o SubSeq(ShippedRemoveSteps, 7, 8) : p \in Permutations(1 .. 3)}

\* SMACK rules before the ipk is installed: the status dropped with it is one of a remove, too.
SmackFirst ==
    SubSeq(ShippedInstallSteps, 1, 3)
        \o <<Entry("AppCloseComplete", "InstallSmackNeeded"),
             Entry("InstallSmackComplete", "IpkInstallNeeded"),
             Entry("IpkInstallComplete", "ServiceInstallNeeded"),
             Entry("ServiceInstallComplete", "InstallComplete")>>

MCInstallConfs == Shuffled(ShippedInstallSteps, 5, 7) \cup {SmackFirst}
MCRemoveConfs == UNION {Shuffled(conf, 2, 6) : conf \in Rechained}

=============================================================================
