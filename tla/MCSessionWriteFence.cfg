SPECIFICATION Spec
CONSTANTS
    MaxGen = 3
    MaxEntry = 1
    MaxQueue = 3
    MaxFault = 1
    MaxForeign = 1
INVARIANTS
    TypeOK
    RestoredLeafStands
    DeletedHasNoWriter
PROPERTIES
    AdmitsAfterRestore
CHECK_DEADLOCK FALSE
