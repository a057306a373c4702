CONSTANTS
    MaxFrames = 3
    K = 2
    MaxTimestamp = 6

SPECIFICATION Spec
INVARIANTS TypeOK TimestampsFresh DistanceIndexInHistory
PROPERTY ImplementsReplacer
