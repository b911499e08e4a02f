SPECIFICATION Spec
CONSTANTS
  GuardKeys = {ip1, dev1, dev2}
  Attempts = {t1, t2}
  MAX_FAILURES = 2
  WINDOW = 1
  BLOCK = 2
  LastInstant = 5
  VodKeys = {v1}
  Calls = {q1, q2}
  TTL = 2
  TIMEOUT = 2
  LastTick = 6
  NoAnswer = NoAnswer
  Activations = {x1, x2, x3}
  POOL = 2
  Absent = Absent
  Sources = {src1}
  Playlists <- MCPlaylists
  StreamOf <- MCStreamOf
  Syncs = {n1}
  Checks = {cron, panel}
  Cron = cron
  WORKERS = 1
  BATCH = 1
  MaxCrashes = 1
  GuideChannels = {"telefe", "cine"}
  TvgOf <- MCTvgOf
  ExternalIdOf <- MCExternalIdOf
  GuideSyncs = {n1, n2}
  HORIZON = 1
  BATCH_ROWS = 1
  LastSlot = 2
  MaxCopies = 2
  MaxRows = 5
  AskedSizes <- MCAskedSizes
  AskedPages <- MCAskedPages
  DEFAULT_SIZE = 2
  MAX_SIZE = 4
INVARIANTS ServicesTypeOK ExhaustedIsBlocked GuessesAreBounded ServedIsRecent SyncKeepsBest UrlIsItsOwn GuideNotDoubled WalkSeesAll
PROPERTIES ReplacedNotErased ActivationsAnswer StandingCatchesUp
CHECK_DEADLOCK FALSE
