--------------------------- MODULE MCServicePermissions ---------------------------
(***************************************************************************)
(* The files of PermissionFilter, and packages with services of both       *)
(* schemas, for TLC.                                                       *)
(***************************************************************************)
EXTENDS ServicePermissions

MCToken ==
    {"public", "application", "operation", "group", ".", "time", "query", "auth", "passcode",
     "database", "management", "applicationinstall", "arescli", "interface",
     "s1", "s2", "sync", "get", "put", "info", "quit", "*"}

MCGroups ==
    {Public, <<"time", ".", "query">>, <<"auth", ".", "passcode">>,
     <<"database", ".", "management">>}

Arrays(n) ==
    {ArrayOf(items) : items \in UNION {[1 .. k -> MCGroups \cup {NotString}] : k \in 0 .. n}}

MCRequiredPermissions == Arrays(3) \cup {NoArray}
MCGrantable == Arrays(2) \cup {NoArray}

Get == [name |-> "get", groups |-> <<"query">>]
Put == [name |-> "put", groups |-> <<"operation", "query">>]
Item(commands, names) == [Commands |-> commands, groups |-> names]
Service(directory, id, new, items) ==
    [directory |-> directory, id |-> id, hasSchemaVersion |-> new, services |-> items]

MCPackages == {
    [verified |-> TRUE, services |-> << >>],
    [verified |-> TRUE, services |->
        <<Service("s1", "s1", FALSE, <<Item(<<Get, Put>>, << >>)>>),
          Service("s2", "s2", TRUE, <<Item(<<Get>>, <<"query">>),
                                      Item(<<Put>>, <<"operation", "query">>)>>)>>],
    [verified |-> FALSE, services |->
        <<Service("s1", "sync", FALSE, <<Item(<<Get>>, << >>)>>),
          Service("s2", "s2", FALSE, <<Item(<<Put>>, << >>), Item(<< >>, << >>)>>)>>]}

MCServices == {Directories(p.services) : p \in MCPackages}

\* The cases of the unit tests of isAlwaysDenied.
ASSUME DeniedAsTested ==
    /\ \A g \in {<<"all">>, <<"private">>, <<"applicationinstall", ".", "management">>,
                 <<"applicationinstall", ".", "devmode">>, <<"appmanager", ".", "management">>,
                 <<"auth", ".", "query">>, <<"devmode", "-service", ".", "operation">>,
                 <<"arescli", ".", "interface">>, <<"settings", ".", "devutility">>,
                 <<"imlibpurple-call", ".", "debug">>, <<"networking", ".", "internal">>,
                 <<"database", ".", "profiling">>} : IsAlwaysDenied(g)
    /\ \A g \in {Public, <<"notification", ".", "operation">>, ApplicationOperation,
                 <<"allowed", ".", "operation">>, <<"management", ".", "query">>,
                 <<"oauth", ".", "operation">>, << >>} : ~IsAlwaysDenied(g)

=============================================================================
