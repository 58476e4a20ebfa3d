SPECIFICATION Spec
CONSTANTS MaxRows = 2  MaxLen = 2
INVARIANTS TypeOK RoundTrip
CHECK_DEADLOCK FALSE
