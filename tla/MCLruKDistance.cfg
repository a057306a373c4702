CONSTANTS
    MaxFrames = 3
    K = 2
    MaxTimestamp = 6

SPECIFICATION Spec
PROPERTY LargestKDistanceGoesFirst
