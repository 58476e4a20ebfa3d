CONSTANTS
    w1 = w1
    w2 = w2
    w3 = w3
    Workers <- MCWorkers
    Leader = w1
    MaxTime = 3
    HasStorage = TRUE
    CallbackFails = TRUE
SPECIFICATION Spec
INVARIANTS TypeOK FinalizedAfterCallbacks LeaderAfterWorkers
PROPERTIES EndsUnlessFailed
CHECK_DEADLOCK FALSE
