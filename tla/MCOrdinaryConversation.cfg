SPECIFICATION Spec
CONSTANTS
    MaxRun = 3
    MaxUpset = 1
INVARIANTS
    TypeOK
    RunsAreOwned
PROPERTIES
    ServesInOrder
    NothingStartsAfterDeletion
CHECK_DEADLOCK FALSE
