CONSTANTS
    k1 = k1
    k2 = k2
    a = a
    b = b
    none = none
    Keys <- MCKeys
    Vals <- MCVals
    None = none
SPECIFICATION Spec
INVARIANTS TypeOK RoundTrip

