SPECIFICATION Spec
SYMMETRY Symmetry
CONSTANTS
    None = none
    Ids = {i1, i2}
    Names = {n1, n2}
    SecondsPerMinute = 2
    MinutesPerDay = 2
    TICKS_PER_SECOND = 2
    Micros = 4
    Word = 32
    MaxId = 3
    Masks <- MCMasks
    Dates <- MCDates
    Owners <- MCOwners
    FirstAttr <- File
    OtherAttrs <- Changed
    AttrTTL = 0
    DirTTL = 1
    MaxTime = 2
    MaxChanges = 1
    MaxSets = 1
INVARIANTS ShownExact SetIsShown
