SPECIFICATION Spec
CONSTANTS
    Keys = {k1, k2, k3}
    Vals = {v1, v2, v3, v4}
    MaxTTL = 2
    MaxSize = 2
    Slack = 1
    MaxTime = 4
SYMMETRY Symmetry
INVARIANTS ValuesAlive TableSound LimitRestored
