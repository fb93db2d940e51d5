SPECIFICATION FairSpec
CONSTANTS
    MaxRun = 2
    MaxUpset = 0
PROPERTY EitherPathActivates
CHECK_DEADLOCK FALSE
