SPECIFICATION FairSpec
CONSTANTS
    MBUFSIZE = 2
    WBUFHDRINFOSIZE = 4
    WBufsMax = 3
    WriteBufferLimit = 2
    PoolSize = 3
    MaxFile = 5
    Sizes = {0, 2, 3}
    Packets = {"SEEK", "FLUSH"}
    ServerFails = TRUE
INVARIANTS CacheSound NoSilentLoss PoolConserved NeverNoMem
PROPERTIES DataMoves
