SPECIFICATION Spec
CONSTANTS
    Distances = {0, 1, 3}
    Readings <- MCReadings
    MaxEvents = 3
    Tolerance = 2
    LossIncrease = 1
INVARIANTS
    EveryEventAccounted
    NoMissedPair
    EqualTracesEqual
    FaultJustified
\* The comparison ends.
CHECK_DEADLOCK FALSE
