SPECIFICATION LiveSpec
CONSTANTS
  q1 = q1
  q2 = q2
  q3 = q3
  w1 = w1
  w2 = w2
  file = file
  key = key
  NoKey = NoKey
  None = None
  Unpaired = "unpaired"
  Stories = {"attachment", "echo"}
  Requests = {q1, q2}
  KeyOf <- Keys
  KindOf <- Kinds
  Cancels = {c1}
  Workers = {w1, w2}
  PhoneStates = {"connected", "disconnected"}
  MaxStalls = 1
  MaxFaults = 2
  MaxAttempts = 2
  ClientWrites = TRUE
CHECK_DEADLOCK FALSE
PROPERTIES QueuedSettles DispatchedIsRecorded EchoReachesTimeline
