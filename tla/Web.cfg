SPECIFICATION WebClientSpec
CONSTANTS
  inbox = c1
  Channels = {c1, c2}
  NoChannel = NoChannel
  MaxStored = 1
  MaxRequests = 2
  MaxWebFaults = 1
  menuChat = d1
  firstAgent = u1
  Chats = {d1, d2}
  NoChat = NoChat
  MaxChanges = 2
  MaxListReads = 2
  MaxCommands = 1
  MaxInboxFaults = 1
  EventKeys = {e1, e2, e3}
  MaxAlerts = 2
  MaxHeard = 4
  MaxTexts = 2
  MaxDialogs = 2
  Users = {u1, u2}
  NoUser = NoUser
  Tabs = {t1, t2}
  MaxTokens = 2
  MaxEndpoints = 1
  MaxCallsOut = 2
  MaxQrs = 2
  MaxLinkCalls = 2
  MaxPhoneMoves = 1
  MaxLinkFaults = 1
  firstChat = p1
  PaneChats = {p1, p2}
  MaxSwitches = 1
  MaxAsked = 2
  NoBubble = NoBubble
  Words = {w1, w2}
  NoWord = NoWord
  Things = {s1}
  SearchLimit = 1
  MaxReach = 1
  MaxTries = 3
CHECK_DEADLOCK FALSE
INVARIANTS WebClientTypeOK NoStaleNews RepeatsFollowErrors PushesFollowTheBrowser LinkScreenInv ActionsInv LookupsInv
PROPERTIES PaneCatchesUp ChatsCatchUp NotesStayInside
