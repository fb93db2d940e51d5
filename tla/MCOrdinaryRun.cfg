SPECIFICATION Spec
CONSTANTS
    Calls = {a, b, c}
    Gated = {a, b}
    MaxRound = 2
    MaxFault = 1
    MaxCrash = 1
    MaxCancel = 1
SYMMETRY Symmetry
INVARIANTS
    TypeOK
    HonestFacts
    NoSilentEffect
    GateHonoured
    StableIsQuiet
    AwaitingIsLive
    BarrierAfterRestore
PROPERTIES
    Final
CHECK_DEADLOCK FALSE
