SPECIFICATION FairSpec
CONSTANTS
    Procs = {p, q}
    RunLived = {p}
    Referenced = {p, q}
    NoProc = NoProc
    Cleanups = {c1, c2}
    Shutdowns = {d}
INVARIANTS
    TypeOK
    StoppedIsDead
    ShutdownMissesNothing
    KillingIsOwned
PROPERTIES
    RevocationStands
    RevocationSettles
