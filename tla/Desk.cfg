SPECIFICATION DeskSpec
CONSTANTS
  Calls = {k1, k2}
  Direct = Direct
  MaxGroups = 3
  NoRow = NoRow
  MaxConvFaults = 1
  Admins = {a1}
  Agents = {a2}
  visitor = a2
  Clients = {x1, x2}
  Conns = {s1, s2}
  FreshFor = 3
  MaxDrops = 2
  Media = {m1}
  Runners = {r1, r2}
  DownloadAttempts = 2
  PurgeBatch = 1
  MaxMediaFaults = 3
  RegCalls = {q1, q2}
  changer = q1
  NoMeta = NoMeta
  NoCall = NoCall
  MaxTouches = 2
  MaxMappings = 2
  MaxRegFaults = 1
  Posted = {1, 2}
  Handlers = {h1, h2}
  live = h2
  MaxCached = 2
  NoHandler = NoHandler
  MaxCacheFaults = 1
  MaxWire = 2
  Unstored = Unstored
  MaxRecipients = 4
  namer = w1
  Editors = {w1, w2}
  NoEdit = NoEdit
  Labels = {"l1", "l2"}
  Contents = {"k1", "k2"}
  MaxEdits = 3
  Emails = {"e1", "e2"}
  Slugs = {"g1", "g2"}
  HistoryLimit = 3
  MaxTranscript = 4
CHECK_DEADLOCK FALSE
INVARIANTS DeskTypeOK CommandsAreIdempotent AccessAgrees NothingDangles SettingsInv WireInv
PROPERTIES NeverLoosens CommandsAreAnswered PresenceRecovers MediaSettles RowsConverge CacheIsSaved
