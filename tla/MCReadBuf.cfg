SPECIFICATION Spec
CONSTANTS
    Handles = {f, g}
    f = f
    g = g
    MBUFSIZE = 3
    RBUFFERLIMIT = 2
    Nums = {2, 3}
    Pools = {1, 2}
    MaxLen = 4
    MaxWrites = 2
SYMMETRY Symmetric
CHECK_DEADLOCK FALSE
INVARIANTS PoolExact ReadsExact FreesOnlyFree
