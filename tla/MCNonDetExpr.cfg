CONSTANTS
    k1 = k1
    k2 = k2
    v1 = v1
    v2 = v2
    Keys <- MCKeys
    Values <- MCValues
    NoValue = NoValue
    MaxRestarts = 2
SPECIFICATION Spec
INVARIANTS TypeOK OutputMatchesInput NeverPanics
