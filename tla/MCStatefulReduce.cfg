CONSTANTS
    err = err
    none = none
    a = a
    b = b
    SrcKeys = {1, 2, 3, 4}
    Vals = {a, b}
    ErrorVal = err
    NoState = none
    ValOf <- MCValOf
    GroupErr = {2}
    InitFails = {4}
SPECIFICATION Spec
INVARIANTS TypeOK DedupKeepsAccepted ErrorPoisonsGroup EarliestIsFirstMin
CHECK_DEADLOCK FALSE
