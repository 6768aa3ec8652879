------------------------------- MODULE StepTables -------------------------------
(***************************************************************************)
(* The step tables of appinstalld: the array of (status, action) pairs of  *)
(* the configuration file, and what StepSettings::loadStepConfigure makes  *)
(* of one pair.  A table maps the status a command has reached to the      *)
(* stage it starts next.                                                   *)
(***************************************************************************)
EXTENDS Sequences, SequencesExt

Entry(s, a) == [status |-> s, action |-> a]

\* files/conf/appinstalld-conf.json.in
ShippedInstallSteps == <<
    Entry("Unknown",                "IpkParseNeeded"),
    Entry("IpkParseComplete",       "GetIpkInfoNeeded"),
    Entry("GetIpkInfoComplete",     "AppCloseNeeded"),
    Entry("AppCloseComplete",       "IpkInstallNeeded"),
    Entry("IpkInstallComplete",     "ServiceInstallNeeded"),
    Entry("ServiceInstallComplete", "InstallSmackNeeded"),
    Entry("InstallSmackComplete",   "InstallComplete") >>

ShippedRemoveSteps == <<
    Entry("Unknown",                  "AppCloseNeeded"),
    Entry("AppCloseComplete",         "RemoveNeeded"),
    Entry("RemoveStarted",            "RemoveJailNeeded"),
    Entry("RemoveJailComplete",       "RemoveSmackNeeded"),
    Entry("RemoveSmackComplete",      "ServiceUninstallNeeded"),
    Entry("ServiceUninstallComplete", "IpkRemoveNeeded"),
    Entry("IpkRemoveComplete",        "DataRemoveNeeded"),
    Entry("DataRemoveComplete",       "RemoveComplete") >>

---------------------------------------------------------------------------

(***************************************************************************)
(* TaskStepParser::stringToEnumStep yields Undefied for an unknown name;   *)
(* the empty keepStatus is the only one that can reach it here.            *)
(***************************************************************************)
Undefied == "Undefied"
NoStatus == ""
StringToEnumStep(s) == IF s = NoStatus THEN Undefied ELSE s

\* std::map::insert: the first entry of a status wins.
InsertStep(table, status, action) ==
    [s \in DOMAIN table \cup {StringToEnumStep(status)} |->
        IF s \in DOMAIN table THEN table[s] ELSE action]

\* The locals of one iteration: skip stands for its "continue".
Read(keepStatus, entry) ==
    [keepStatus |-> keepStatus, status |-> entry.status, skip |-> FALSE]

\* Mutant of Bypass: the status the entry was configured with is kept.
BypassConfigured(loop, entry, needed, complete) ==
    IF loop.skip THEN loop
    ELSE IF entry.action = needed
         THEN [loop EXCEPT !.keepStatus = entry.status, !.skip = TRUE]
         ELSE IF loop.status = complete
              THEN [loop EXCEPT !.status = loop.keepStatus]
              ELSE loop

\* Mutant of Bypass: the kept status goes to the entry read next, not to the one after the stage.
BypassNext(loop, entry, needed, complete) ==
    IF loop.skip THEN loop
    ELSE IF entry.action = needed
         THEN [loop EXCEPT !.keepStatus = loop.status, !.skip = TRUE]
         ELSE IF loop.keepStatus # NoStatus
              THEN [loop EXCEPT !.status = loop.keepStatus, !.keepStatus = NoStatus]
              ELSE loop

\* Drop the entry that starts a stage; the entry after the stage takes its status.
Bypass(loop, entry, needed, complete) ==
    IF loop.skip THEN loop
    ELSE IF entry.action = needed
         THEN [loop EXCEPT !.keepStatus = loop.status, !.skip = TRUE]
         ELSE IF loop.status = complete
              THEN [loop EXCEPT !.status = loop.keepStatus]
              ELSE loop

Store(loop, entry, table) ==
    [keepStatus |-> loop.keepStatus,
     table |-> IF loop.skip THEN table ELSE InsertStep(table, loop.status, entry.action)]

\* One iteration of the loop over installSteps.
InstallEntry(smack, loaded, entry) ==
    LET read == Read(loaded.keepStatus, entry)
    IN  Store(IF smack THEN read
              ELSE Bypass(read, entry, "InstallSmackNeeded", "InstallSmackComplete"),
              entry, loaded.table)

\* One iteration of the loop over removeSteps: the jail is tested before SMACK.
RemoveEntry(jail, smack, loaded, entry) ==
    LET read   == Read(loaded.keepStatus, entry)
        jailed == IF jail THEN read
                  ELSE Bypass(read, entry, "RemoveJailNeeded", "RemoveJailComplete")
    IN  Store(IF smack THEN jailed
              ELSE Bypass(jailed, entry, "RemoveSmackNeeded", "RemoveSmackComplete"),
              entry, loaded.table)

\* Both loops; keepStatus passes from the first to the second.
LoadInstallTable(smack, conf) ==
    FoldLeft(LAMBDA loaded, entry: InstallEntry(smack, loaded, entry),
             [keepStatus |-> NoStatus, table |-> <<>>], conf)

LoadRemoveTable(jail, smack, keepStatus, conf) ==
    FoldLeft(LAMBDA loaded, entry: RemoveEntry(jail, smack, loaded, entry),
             [keepStatus |-> keepStatus, table |-> <<>>], conf)

=============================================================================
