SPECIFICATION FairSpec
CONSTANTS
    NumSlots = 4
    Spare = {3}
    Dots = {1}
    Longs = {4}
    Matching = {2, 4}
    NextProgs = {p, q}
    AllProgs = {r}
    p = p
    q = q
    r = r
    Chunk = 3
    Room = 1
    MaxScans = 3
    MaxChanges = 1
    MaxFaults = 1
CHECK_DEADLOCK FALSE
INVARIANTS HandlesExact ScanExact
PROPERTIES ScanEnds
