SPECIFICATION FairSpec
CONSTANTS
    Convs = {c, d}
    MaxRequest = 4
    MaxUpset = 2
INVARIANTS
    TypeOK
    NoOrphans
    MarkerCoversRecord
    AdmittedIsOpen
PROPERTIES
    ImplementsLifetime
    QueuesDrain
    RestartFinishes
CHECK_DEADLOCK FALSE
