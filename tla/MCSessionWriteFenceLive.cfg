SPECIFICATION FairSpec
CONSTANTS
    MaxGen = 2
    MaxEntry = 1
    MaxQueue = 3
    MaxFault = 2
    MaxForeign = 0
PROPERTIES
    RestoreHappens
    ImplementsTranscript
CHECK_DEADLOCK FALSE
