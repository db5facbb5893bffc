CONSTANTS
    p = p
    q = q
    self = self
    None = None
    Programs = {p, q}
    Self = self
    Credentials <- MCCredentials
    InitCreds <- MCInitCreds
    NewCreds <- MCNewCreds
    UserUid = 2
    UserGroups = 1
    DefaultUMask = "m022"
    Actions = {5, 22, 27, 30, 39, 87, 1005, 1007, 1023}
    Commands = {"SET_USER"}
    MaxHandles = 1
    MaxMasks = 2
SPECIFICATION Spec
CHECK_DEADLOCK FALSE
INVARIANTS ActsForSender DispatchExact CleanEnd
PROPERTIES EveryoneAnswered DataLeaves
