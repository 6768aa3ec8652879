SPECIFICATION SSpec
CONSTANTS
    Token <- MCToken
    RequiredPermissions <- MCRequiredPermissions
    Grantable <- MCGrantable
    Services <- MCServices
    Packages <- MCPackages
    NotString = NotString
INVARIANTS
    ApisAreInTheirGroups
CHECK_DEADLOCK FALSE
