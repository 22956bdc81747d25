CONSTANTS
    PublishNames = {tcp}
    MaxHandles = 2
    MaxSockets = 2
    MaxSends = 1
    MaxDrops = 0
SPECIFICATION PublisherSpec
INVARIANTS
    OpenIsAdvertised
CHECK_DEADLOCK FALSE
