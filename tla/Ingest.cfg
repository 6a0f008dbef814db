SPECIFICATION MCSpec
CONSTANTS
  ask = ask
  reply = reply
  again = again
  import = import
  None = None
  Messages = {ask, reply, again}
  TimeOf <- MCTimeOf
  DirectionOf <- MCDirectionOf
  HasMedia = {ask}
  Internal = {}
  Batches = {import}
  EventsIn <- MCEventsIn
  Concurrency = 2
  MaxPosts = 2
  MaxAttempts = 2
  HistoryAttempts = 2
  StaleSyncThreshold = 0
  Now = 3
  Mappings <- MCMappings
  MaxFaults = 1
CHECK_DEADLOCK FALSE
INVARIANTS IngestInv HistoryStartsNothing MarkerIsLatest ResponsesAreReplies
PROPERTIES AnsweredIsStored MediaIsFetched
