CONSTANTS
    MaxFrames = 5
    HighWater = 1
    MaxResubscribes = 2
SPECIFICATION FairSpec
INVARIANTS
    NothingLostSilently
PROPERTIES
    FlushedEventually
    RateLimited
    ViewerPromise
CHECK_DEADLOCK FALSE
