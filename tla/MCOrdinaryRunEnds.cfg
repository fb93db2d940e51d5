SPECIFICATION FairSpec
CONSTANTS
    Calls = {a, b}
    Gated = {a}
    MaxRound = 1
    MaxFault = 3
    MaxCrash = 1
    MaxCancel = 2
INVARIANTS
    RunningIsExecuted
PROPERTIES
    EndedReleasesQueue
    EndedBecomesStable
    ResponseSettles
    ResponseIsNotFailure
CHECK_DEADLOCK FALSE
