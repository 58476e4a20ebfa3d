CONSTANTS
    o1 = o1
    o2 = o2
    e1 = e1
    e2 = e2
    e3 = e3
    Ops <- MCOps
    DependsOnLog = {o2}
    Errors <- MCErrors
    ErrorInValue = {e3}
    Period = 2
SPECIFICATION Spec
INVARIANTS TypeOK NoRecordLeftBehind
PROPERTIES RecordsReachTable Terminates
CHECK_DEADLOCK FALSE
