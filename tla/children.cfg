SPECIFICATION FairSpec
CONSTANTS
    Wrapper = {o1, o2}
    Pid = {p1, p2}
    NoPid = NoPid
    SourceId = {s1, s2}
    NoSource = NoSource
    Root = {internal, developer}
    DevRoot = developer
    MaxLines = 1
    MaxCrashes = 1
INVARIANTS
    NoStrayWatch
    LockIsOpkg
    ToldInFullAndOnce
    UnpacksItsOwn
PROPERTIES
    LockFilesTended
    OpkgIsReaped
