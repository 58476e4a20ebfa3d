CONSTANTS
    l1 = l1
    l2 = l2
    r1 = r1
    err = err
    none = none
    absent = absent
    LKeys <- MCLKeys
    RKeys <- MCRKeys
    JVals = {1, 2}
    Err = err
    None = none
    Absent = absent
SPECIFICATION Spec
INVARIANTS ErroredRowsDropped
