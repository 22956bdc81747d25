CONSTANTS
    MaxFrames = 4
    HighWater = 9
    MaxResubscribes = 0
SPECIFICATION FairSpec
PROPERTIES
    SettlesOnFinal
CHECK_DEADLOCK FALSE
