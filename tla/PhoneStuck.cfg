CONSTANTS
  s1 = s1
  s2 = s2
  Sockets = {s1, s2}
  Launchers = {u1}
  Timer = timer
  Beat = beat
  NoSocket = NoSocket
  MaxSessionFaults = 1
  StaleAfter = 2
SPECIFICATION MCSpec
PROPERTY StuckSyncingDegrades
CHECK_DEADLOCK FALSE
