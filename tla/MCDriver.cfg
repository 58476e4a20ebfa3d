CONSTANTS
    w1 = w1
    w2 = w2
    Workers <- MCWorkers
    CallbackFails = TRUE
SPECIFICATION Spec
INVARIANTS TypeOK ReturnsRootCause OkMeansNoError
PROPERTIES ErrorShutsDown
CHECK_DEADLOCK FALSE
