SPECIFICATION BrowserSpec
CONSTANTS
  Users = {u1, u2}
  NoUser = NoUser
  Tabs = {t1, t2}
  MaxTokens = 2
  MaxEndpoints = 1
  MaxCallsOut = 2
PROPERTY PushesStopAtLogout
CHECK_DEADLOCK FALSE
