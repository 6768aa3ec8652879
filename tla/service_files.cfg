SPECIFICATION Spec
CONSTANTS
    App = "app"
    Service = {"s1"}
    Packages <- MCPackages
    MaxFaults = 2
INVARIANTS
    InstalledIsComplete
PROPERTIES
    NoFileForgotten
    HubToldFirst
