SPECIFICATION Spec
CONSTANTS
  Tabs = {t1, t2}
  Tokens = {1, 2, 3, 4, 5, 6, 7}
  NoToken = NoToken
  MaxTroubles = 1
  Rows = {r1, r2}
  Hits = {r1}
  Gone = Gone
  Loading = Loading
  Failed = Failed
  MaxMoves = 2
  Filters = {f1, f2, f3}
  Searches = {f3}
  LastPage = 3
  MaxTaps = 3
  Starred = {c1, c2}
  StarSlots = {1, 2}
  MaxStars = 3
  Films = {m1, m2}
  Terms = {"", "x", "y"}
  Languages = {es, en}
  LENGTH = 3
  EARLY = 0
  LATE = 3
  MAX_PROGRESS = 1
  MaxSearches = 4
  MaxVisits = 3
  StatusSlots = {1, 2}
  NoStatus = NoStatus
  MaxTurns = 3
INVARIANTS ClientsTypeOK OfferedIsAllowed AnswersFindTheirDialog ListsTellTheTruth
PROPERTIES LiveCookieKept EditTouchesItsRow RefreshSettles PlaybackIsCut
CHECK_DEADLOCK FALSE
