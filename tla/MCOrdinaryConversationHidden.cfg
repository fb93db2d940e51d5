SPECIFICATION Spec
CONSTANTS
    MaxRun = 2
    MaxUpset = 0
INVARIANT QueuedStaysVisible
CHECK_DEADLOCK FALSE
