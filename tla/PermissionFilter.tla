----------------------------- MODULE PermissionFilter -----------------------------
(***************************************************************************)
(* The groups that generateUnifiedAppPermissionsFile writes for an app: it *)
(* reads what the app asks for and what may be granted, both from JSON     *)
(* files, and filters one by the other, an iteration of the loop a step.   *)
(*                                                                         *)
(* A group is the sequence of the tokens of its name, cut where a denied   *)
(* prefix ends or a denied suffix begins.                                  *)
(***************************************************************************)
EXTENDS Naturals, SequencesExt

CONSTANTS
    Token,                  \* what the names of groups are made of
    RequiredPermissions,    \* values "requiredPermissions" may have in appinfo.json
    Grantable,              \* values "grantable" may have in the allowlist's file
    Services,               \* the services a package may have: sequences of ids
    NotString               \* a JSON item of another type

\* A JSON value: an array with its items, or none (absent, unreadable, another type).
NoArray == [isArray |-> FALSE, items |-> << >>]
ArrayOf(items) == [isArray |-> TRUE, items |-> items]

Group == Seq(Token)

ASSUME TokenAssumption == {"public", "application", "operation", "group", "."} \subseteq Token

ASSUME JsonAssumption ==
    /\ NotString \notin Group
    /\ (RequiredPermissions \cup Grantable)
           \subseteq [isArray : BOOLEAN, items : Seq(Group \cup {NotString})]
    /\ Services \subseteq Seq(Token)

Public == <<"public">>
ApplicationOperation == <<"application", ".", "operation">>

\* getGroupNameForService
GroupNameForService(id) == <<id, ".", "group">>

---------------------------------------------------------------------------
(* isAlwaysDenied                                                          *)

DeniedExact == {<<"all">>, <<"private">>}
DeniedPrefixes == {<<"auth", ".">>, <<"devmode">>, <<"applicationinstall", ".">>, <<"arescli", ".">>}
DeniedSuffixes ==
    {<<".", s>> : s \in {"management", "devmode", "devutility", "debug", "internal", "profiling"}}

IsAlwaysDenied(group) ==
    \/ group \in DeniedExact
    \/ \E p \in DeniedPrefixes : IsPrefix(p, group)
    \/ \E s \in DeniedSuffixes : IsSuffix(s, group)

---------------------------------------------------------------------------

VARIABLES
    requiredPermissions, grantable, isQml, services,    \* the input
    at,             \* the part of the function to run next
    requested, allowlist,
    left, seen,     \* of the loop of filter: requests not looked at, looked at
    kept, dropped,
    groups          \* what is written

input == <<requiredPermissions, grantable, isQml, services>>
loop == <<left, seen, kept, dropped>>
vars == <<input, at, requested, allowlist, loop, groups>>

Init ==
    /\ requiredPermissions \in RequiredPermissions
    /\ grantable \in Grantable
    /\ isQml \in BOOLEAN
    /\ services \in Services
    /\ at = "requestedGroups"
    /\ requested = << >> /\ allowlist = {}
    /\ left = << >> /\ seen = {} /\ kept = << >> /\ dropped = << >>
    /\ groups = << >>

AllStrings(json) == json.isArray /\ \A k \in DOMAIN json.items : json.items[k] # NotString

\* The strings of an array; none if it has an item of another type.
Strings(json) == IF AllStrings(json) THEN json.items ELSE << >>

\* requestedGroups; an app that does not say what it needs gets "public".
RequestedGroups ==
    /\ at = "requestedGroups"
    /\ requested' = Strings(requiredPermissions)
    /\ IF AllStrings(requiredPermissions)
       THEN at' = "loadAllowlist" /\ UNCHANGED groups
       ELSE at' = "append" /\ groups' = <<Public>>
    /\ UNCHANGED <<input, allowlist, loop>>

\* loadAllowlist; its failure is logged.
LoadAllowlist ==
    /\ at = "loadAllowlist"
    /\ allowlist' = Range(Strings(grantable))
    /\ left' = requested
    /\ at' = "filter"
    /\ UNCHANGED <<input, requested, seen, kept, dropped, groups>>

\* Mutant of Keeps: the allowlist is trusted.
KeepsListed(group) == group \in allowlist

Keeps(group) == ~IsAlwaysDenied(group) /\ group \in allowlist

\* Mutant of Look: a group asked for twice is kept or dropped twice.
LookAgain(group) ==
    /\ seen' = seen \cup {group}
    /\ IF Keeps(group) THEN kept' = Append(kept, group) /\ UNCHANGED dropped
       ELSE dropped' = Append(dropped, group) /\ UNCHANGED kept

Look(group) ==
    /\ seen' = seen \cup {group}
    /\ IF group \in seen THEN UNCHANGED <<kept, dropped>>
       ELSE IF Keeps(group) THEN kept' = Append(kept, group) /\ UNCHANGED dropped
       ELSE dropped' = Append(dropped, group) /\ UNCHANGED kept

\* One iteration of filter.
Filter ==
    /\ at = "filter" /\ left # << >>
    /\ Look(Head(left))
    /\ left' = Tail(left)
    /\ UNCHANGED <<input, at, requested, allowlist, groups>>

\* grantedGroups
GrantedGroups ==
    /\ at = "filter" /\ left = << >>
    /\ groups' = IF kept = << >> THEN <<Public>> ELSE kept
    /\ at' = "append"
    /\ UNCHANGED <<input, requested, allowlist, loop>>

\* The groups the daemon gives of its own accord.
OwnGroups ==
    (IF isQml THEN <<ApplicationOperation>> ELSE << >>)
        \o [k \in DOMAIN services |-> GroupNameForService(services[k])]

AppendOwn ==
    /\ at = "append"
    /\ groups' = groups \o OwnGroups
    /\ at' = "done"
    /\ UNCHANGED <<input, requested, allowlist, loop>>

Next == RequestedGroups \/ LoadAllowlist \/ Filter \/ GrantedGroups \/ AppendOwn

Spec == Init /\ [][Next]_vars

---------------------------------------------------------------------------
(* Properties.                                                             *)

TypeOK ==
    /\ requiredPermissions \in RequiredPermissions /\ grantable \in Grantable
    /\ isQml \in BOOLEAN /\ services \in Services
    /\ at \in {"requestedGroups", "loadAllowlist", "filter", "append", "done"}
    /\ requested \in Seq(Group) /\ left \in Seq(Group)
    /\ allowlist \subseteq Group /\ seen \subseteq Group
    /\ kept \in Seq(Group) /\ dropped \in Seq(Group) /\ groups \in Seq(Group)

\* What the files allow, read as a whole.
MayBeGranted ==
    IF AllStrings(grantable) THEN {g \in Range(grantable.items) : ~IsAlwaysDenied(g)} ELSE {}

(***************************************************************************)
(* A group that is written is one the allowlist has and no rule denies,    *)
(* "public", or one the daemon gives of its own accord; a malformed file,  *)
(* whichever of the two it is, grants nothing else.                        *)
(***************************************************************************)
GrantsAreGrantable ==
    \A k \in DOMAIN groups :
        groups[k] \in MayBeGranted \cup {Public} \cup Range(OwnGroups)

\* The places of the elements of S in a sequence, the first of each.
FirstPlaces(seq, S) ==
    {k \in DOMAIN seq : seq[k] \in S /\ \A j \in 1 .. (k - 1) : seq[j] # seq[k]}

\* The elements of S that a sequence has, in its order and once.
IsSelection(picked, seq, S) ==
    \E place \in [DOMAIN picked -> FirstPlaces(seq, S)] :
        /\ \A i \in DOMAIN picked : picked[i] = seq[place[i]]
        /\ \A i, j \in DOMAIN picked : i < j => place[i] < place[j]
        /\ \A k \in FirstPlaces(seq, S) : \E i \in DOMAIN picked : place[i] = k

(***************************************************************************)
(* An app gets what it asked for and may have, in its own order and once,  *)
(* and is never left without a group; whatever it does not get is reported *)
(* as dropped, once.                                                       *)
(***************************************************************************)
FilterIsReference ==
    at = "done" /\ AllStrings(requiredPermissions) =>
        LET asked == requiredPermissions.items
        IN  /\ groups = (IF kept = << >> THEN <<Public>> ELSE kept) \o OwnGroups
            /\ IsSelection(kept, asked, MayBeGranted)
            /\ IsSelection(dropped, asked, Range(asked) \ MayBeGranted)

=============================================================================
