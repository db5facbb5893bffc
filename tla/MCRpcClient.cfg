SPECIFICATION FairSpec
CONSTANTS
    NumAsync = 3
    NumRPCs = 2
    MaxData = 2
    Counts = {1, 5}
    MaxRefusals = 1
    Rounds = 2
    MaxXid = 3
CHECK_DEADLOCK FALSE
INVARIANTS SlotsAccounted ReadExact
PROPERTIES AnswersHonest TransferEnds
