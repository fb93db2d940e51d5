SPECIFICATION Spec
CONSTANTS
    Calls = {a, b}
    Gated = {a, b}
    MaxRound = 2
    MaxFault = 0
    MaxCrash = 0
    MaxCancel = 0
INVARIANTS
    PauseIsAdmissible
CHECK_DEADLOCK FALSE
