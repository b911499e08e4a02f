SPECIFICATION Spec
CONSTANTS
  NULL = NULL
  Plans = {p1}
  Codes = {c1}
  CustomerIds = {k1, k2}
  DeviceIds = {d1, d2}
  SessionIds = {s1, s2}
  Apps = {a1, a2}
  Requests = {r1}
  Workers = {w1}
  SeedDays <- OneDay
  PlanDays = {}
  SESSION_TTL = 2
  MaxTime = 0
  MaxExpiry = 3
  Limits = {1}
  CodeExpiries = {NULL}
  Owners <- AnyOwner
  MaxInFlight = 2
  MayCrash = FALSE
  Ops = {"createCode", "revokeCode"}
SYMMETRY Symmetry
INVARIANTS RevokedMeansOut
CHECK_DEADLOCK FALSE
