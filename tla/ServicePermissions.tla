---------------------------- MODULE ServicePermissions ----------------------------
(***************************************************************************)
(* What install writes about the methods of the services of a package and  *)
(* who may call them: for each service the API permissions file (which     *)
(* methods are in which group) and the group file (which trust level a     *)
(* group asks for), and then the permissions of the app itself, which is   *)
(* PermissionFilter.  The files meet again only in the hub.                *)
(*                                                                         *)
(* A method is <<service, command>>, with "*" for all of a service.        *)
(***************************************************************************)
EXTENDS PermissionFilter

CONSTANT Packages       \* the packages that are installed

\* A command; its groups are only in the new schema.
Command == [name : Token, groups : Seq(Token)]

\* An element of "services" of services.json; groups: the names of its "groups".
ServiceItem == [Commands : Seq(Command), groups : Seq(Token)]

(***************************************************************************)
(* A service as one of the two schemas lets it pass, in the directory that *)
(* packageinfo.json names; hasSchemaVersion tells the schemas apart.       *)
(***************************************************************************)
ServiceInfo ==
    [directory : Token, id : Token, hasSchemaVersion : BOOLEAN, services : Seq(ServiceItem)]

Package == [verified : BOOLEAN, services : Seq(ServiceInfo)]

Directories(infos) == [k \in DOMAIN infos |-> infos[k].directory]

ASSUME PackageAssumption ==
    /\ Packages \subseteq Package
    /\ \A p \in Packages : Directories(p.services) \in Services
    /\ {"applicationinstall", "arescli", "interface", "info", "quit", "*"} \subseteq Token

VARIABLES
    package,
    generated,      \* how many services have their files
    apiFiles, groupFiles    \* the two files of each service that has them

filesVars == <<package, generated, apiFiles, groupFiles>>

ApplicationinstallInterface == <<"applicationinstall", ".", "interface">>
ArescliInterface == <<"arescli", ".", "interface">>
kInstalledAppTrustLevel == "dev"

Methods(id, commands) == {<<id, c>> : c \in commands}

---------------------------------------------------------------------------
(* The contents of the files.                                              *)

\* What the daemon itself calls.
Interface(service) == Methods(service.id, {"info", "quit"})

\* generateAPIPermissionsFileForServiceOldSchema
APIPermissionsOldSchema(service) ==
    LET own == {GroupNameForService(service.id)}
                   \cup IF package.verified THEN {} ELSE {ArescliInterface}
    IN  [g \in {ApplicationinstallInterface} \cup own |->
            IF g = ApplicationinstallInterface THEN Interface(service)
            ELSE Methods(service.id, {"*"})]

\* An item of "groups" is an object, and asString of an object is empty.
AsString(groupItem) == << >>

(***************************************************************************)
(* generateAPIPermissionsFileForServiceNewSchema: each command of an       *)
(* element of "services" goes into the group of each item of the "groups"  *)
(* of that element.                                                        *)
(***************************************************************************)
APIPermissionsNewSchema(service) ==
    LET placed == UNION {
            {[group |-> <<service.id, ".">> \o AsString(g), method |-> <<service.id, c.name>>] :
                 c \in Range(item.Commands), g \in Range(item.groups)} :
                     item \in Range(service.services)}
    IN  [g \in {ApplicationinstallInterface} \cup {p.group : p \in placed} |->
            IF g = ApplicationinstallInterface THEN Interface(service)
            ELSE {p.method : p \in {q \in placed : q.group = g}}]

APIPermissionsFile(service) ==
    IF service.hasSchemaVersion THEN APIPermissionsNewSchema(service)
    ELSE APIPermissionsOldSchema(service)

\* generateGroupFileForServiceOldSchema and NewSchema, without "allowedNames".
GroupNames(service) ==
    IF ~service.hasSchemaVersion THEN {GroupNameForService(service.id)}
    ELSE UNION {{<<service.id, ".", g>> : g \in Range(item.groups)} :
                    item \in Range(service.services)}

\* Mutant of GroupTrustLevel: that of a system service, which a package may ask for.
OemTrustLevel == "oem"

\* The package's own "acgTrustLevel" is not used.
GroupTrustLevel == kInstalledAppTrustLevel

GroupFile(service) == [g \in GroupNames(service) |-> GroupTrustLevel]

---------------------------------------------------------------------------

SInit ==
    /\ Init
    /\ package \in Packages
    /\ services = Directories(package.services)
    /\ generated = 0
    /\ apiFiles = << >> /\ groupFiles = << >>

\* generateFilesForService, as far as the two files go.
GenerateFilesForService ==
    /\ generated < Len(package.services)
    /\ LET service == package.services[generated + 1]
       IN  /\ apiFiles' = Append(apiFiles, APIPermissionsFile(service))
           /\ groupFiles' = Append(groupFiles, GroupFile(service))
    /\ generated' = generated + 1
    /\ UNCHANGED <<vars, package>>

\* generatePermissionFileForWebApp and ForNativeApp, when the services have theirs.
GeneratePermissionFile ==
    /\ generated = Len(package.services)
    /\ Next
    /\ UNCHANGED filesVars

SNext == GenerateFilesForService \/ GeneratePermissionFile

SSpec == SInit /\ [][SNext]_<<vars, filesVars>>

---------------------------------------------------------------------------
(* Properties.                                                             *)

\* What the file of the role of an app says: RoleGenerator.
RoleTrustLevel == kInstalledAppTrustLevel

\* An app with the groups granted may call the method of the k-th service.
MayCall(granted, k, command) ==
    \E g \in granted \cap DOMAIN apiFiles[k] :
        /\ \E m \in apiFiles[k][g] : m[2] \in {command, "*"}
        /\ g \in DOMAIN groupFiles[k] /\ groupFiles[k][g] = RoleTrustLevel

(***************************************************************************)
(* ServiceInstallerUtility.cpp, on trust levels: the callers of a service  *)
(* "include the package's own app".  The app may call every command of a   *)
(* service of the old schema: the group that makes it possible is the same *)
(* in the permissions of the app, where it is named after the directory of *)
(* the service and survives the filter, and in the two files of the        *)
(* service, where it is named after the id, which is the same in packages  *)
(* that are put together as they should be.                                *)
(***************************************************************************)
OwnAppMayCall ==
    at = "done" =>
        \A k \in DOMAIN package.services :
            LET service == package.services[k]
            IN  ~service.hasSchemaVersion /\ service.id = service.directory =>
                    \A item \in Range(service.services) : \A c \in Range(item.Commands) :
                        MayCall(Range(groups), k, c.name)

(***************************************************************************)
(* servicesJson-1.0.0.schema: "Each API is placed under one or muliple     *)
(* groups. Lists out the groups API belongs to".  When the API file of a   *)
(* service is there, it has every command in the groups the command lists. *)
(***************************************************************************)
ApisAreInTheirGroups ==
    \A k \in DOMAIN apiFiles :
        LET service == package.services[k]
        IN  service.hasSchemaVersion =>
                \A item \in Range(service.services) : \A c \in Range(item.Commands) :
                    \A g \in Range(c.groups) :
                        /\ <<service.id, ".", g>> \in DOMAIN apiFiles[k]
                        /\ <<service.id, c.name>> \in apiFiles[k][<<service.id, ".", g>>]

=============================================================================
