SPECIFICATION Spec
CONSTANTS
    Traces <- MCTraces
    Windows = {1, 3, 4}
    Thresholds = {4, 8}
    MergeWindows = {1, 2}
    Reaches = {4, 17}
INVARIANTS
    KeptApart
    DroppedBesideLarger
    StepFound
    SpikeIgnored
\* The detection ends.
CHECK_DEADLOCK FALSE
