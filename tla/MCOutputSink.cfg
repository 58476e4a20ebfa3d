CONSTANTS
    MaxTime <- MCMaxTime
    MaxBatches <- MCMaxBatches
    MaxEntries <- MCMaxEntries
    ReplayTimes <- MCReplayTimes
    HasStorage = TRUE
SPECIFICATION Spec
INVARIANTS TypeOK FinalizedCoversDurable DoneImpliesDelivered
PROPERTIES Terminates ImplementsSinkLog
CHECK_DEADLOCK FALSE
