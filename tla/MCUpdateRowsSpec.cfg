CONSTANTS
    k1 = k1
    k2 = k2
    a = a
    b = b
    Keys <- MCKeys
    Vals <- MCVals
    NoRow = NoRow
    ErrorVal = ErrorVal
    MaxMult = 2
SPECIFICATION Spec
INVARIANTS UpdateRowsNeedsOriginal
