SPECIFICATION SSpec
CONSTANTS
    Token <- MCToken
    RequiredPermissions <- MCRequiredPermissions
    Grantable <- MCGrantable
    Services <- MCServices
    Packages <- MCPackages
    NotString = NotString
INVARIANTS
    GrantsAreGrantable
    FilterIsReference
    OwnAppMayCall
CHECK_DEADLOCK FALSE
