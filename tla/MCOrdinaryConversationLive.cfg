SPECIFICATION FairSpec
CONSTANTS
    MaxRun = 2
    MaxUpset = 2
INVARIANT ExecutedOnce
PROPERTIES
    DeletionCompletes
    QueuedStarts
    KeyIsReleased
CHECK_DEADLOCK FALSE
