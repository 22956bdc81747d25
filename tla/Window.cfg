CONSTANTS
  PublishNames = {tcp, cmd}
  MaxHandles = 3
  MaxSockets = 6
  MaxSends = 1
  MaxDrops = 1
  Recordings <- MCRecordings
  RecordedChannels <- MCRecordedChannels
  MaxStep = 2
  MaxLoads = 3
  MaxSeeks = 3
SPECIFICATION FairSpec
INVARIANTS
    HubInSync
    PositionShown
PROPERTIES
    EventuallyPublished
    PlaysToEnd
CHECK_DEADLOCK FALSE
