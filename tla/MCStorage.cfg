\* Three descriptors, indices that wrap after two rounds.
CONSTANTS
    Sectors = {s1, s2, s3}
    Values = {v1, v2}
    CACHE_SIZE = 2
    MaxCounter = 5
    NoAnswer = none
    VQ_SIZE = 3
    IdxSpan = 6
    Frames = {f1, f2}
    VqSectors = {s1, s2}
    VqValues = {v1, v2}
    VqUses <- OneAtATime
SPECIFICATION Spec
INVARIANTS QueuesIntact
PROPERTIES ImplementsStore TransfersComplete
CHECK_DEADLOCK FALSE
