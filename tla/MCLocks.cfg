SPECIFICATION Spec
CONSTANTS
    Names = {f, g}
    FileIds = {i1, i2}
    LockIds = {l1, l2, l3}
    Root = root
    None = none
    Packets <- AllPackets
    ServerFails = TRUE
    ReuseIds = TRUE
SYMMETRY Symmetry
INVARIANTS HandlesLocked LocksProtect ExclusiveAlone
