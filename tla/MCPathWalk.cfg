SPECIFICATION FairSpec
CONSTANTS
    Letters = {"a", "b"}
    MaxLen = 4
    MaxName = 3
    BadLock = BadLock
    NoDev = NoDev
    NoDir = NoDir
    Volume <- MCVolume
    DevNames <- MCDevNames
    LockNames <- MCLockNames
    Dirs <- MCDirs
    Files <- MCFiles
    Link <- MCLink
    Targets <- MCTargets
    BufSizes = {4, 7, 20}
    MaxFollows = 2
CHECK_DEADLOCK FALSE
INVARIANTS UnifySound AnswerExact
PROPERTIES RequestEnds
