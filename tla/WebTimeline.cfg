SPECIFICATION WebSpec
CONSTANTS
  Channels = {c1, c2}
  NoChannel = NoChannel
  MaxStored = 1
  MaxRequests = 2
  MaxWebFaults = 0
CHECK_DEADLOCK FALSE
INVARIANTS TimelineOfChannel
