SPECIFICATION StorySpec
CONSTANTS
  q1 = q1
  q2 = q2
  q3 = q3
  w1 = w1
  w2 = w2
  file = file
  key = key
  NoKey = NoKey
  None = None
  Unpaired = "unpaired"
  Stories = {"echo"}
  Requests = {q1, q2}
  KeyOf <- Keys
  KindOf <- Kinds
  Cancels = {c1}
  Workers = {w1}
  PhoneStates = {"connected"}
  MaxStalls = 0
  MaxFaults = 0
  MaxAttempts = 3
  ClientWrites = FALSE
CHECK_DEADLOCK FALSE
INVARIANTS AckedCancelPreventsSend
