CONSTANTS
    NULL = NULL
    Base = 5
    NFS_FHSIZE = 4
    NFS_COOKIESIZE = 4
    NFS_MAXNAMLEN = 5
    NFS_MAXPATHLEN = 6
    NFS_MAXDATA = 8
    Ops <- MCOps
    Junk <- MCJunk
    Statuses <- MCStatuses
    DirStatuses <- MCDirStatuses
    Bodies <- MCBodies
    RpcFailures = {3, 5}
    Cookies <- MCCookies
    Directories <- MCDirectories
    NewNames <- MCNewNames
    Chunks = {1, 2}
    CompareLength = 3
    MaxRoom = 4
    MaxChanges = 1
    SplitLengths = {1, 3, 4, 8}
SPECIFICATION FairSpec
INVARIANTS ServerSeesArguments ResultExact LookupExact
PROPERTIES CallReturns
