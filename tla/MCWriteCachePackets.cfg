SPECIFICATION Spec
CONSTANTS
    MBUFSIZE = 7
    WBUFHDRINFOSIZE = 3
    WBufsMax = 2
    WriteBufferLimit = 5
    PoolSize = 2
    MaxFile = 14
    Sizes = {0, 1, 8}
    Packets = {"SEEK", "FLUSH", "SET_FILE_SIZE"}
    ServerFails = FALSE
INVARIANTS TablesExact CallSound
