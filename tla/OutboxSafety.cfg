SPECIFICATION StorySpec
CONSTANTS
  q1 = q1
  q2 = q2
  q3 = q3
  w1 = w1
  w2 = w2
  file = file
  key = key
  NoKey = NoKey
  None = None
  Unpaired = "unpaired"
  Stories = {"attachment", "retry"}
  Requests = {q1, q2, q3}
  KeyOf <- Keys
  KindOf <- Kinds
  Cancels = {c1}
  Workers = {w1, w2}
  PhoneStates = {"connected", "disconnected", "unpaired"}
  MaxStalls = 1
  MaxFaults = 1
  MaxAttempts = 3
  ClientWrites = FALSE
SYMMETRY Alike
CHECK_DEADLOCK FALSE
INVARIANTS TypeOK AtMostOnce Custody SentWasDelivered
PROPERTIES CancelBeforeClaimHolds KeepsPromise
