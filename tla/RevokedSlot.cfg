SPECIFICATION Spec
CONSTANTS
  NULL = NULL
  Plans = {p1}
  Codes = {c1}
  CustomerIds = {k1}
  DeviceIds = {d1, d2}
  SessionIds = {s1, s2}
  Apps = {a1, a2}
  Requests = {r1}
  Workers = {}
  SeedDays <- OneDay
  PlanDays = {}
  SESSION_TTL = 2
  MaxTime = 1
  MaxExpiry = 1
  Limits = {1}
  CodeExpiries = {NULL}
  Owners <- NoOwner
  MaxInFlight = 1
  MayCrash = FALSE
  Ops = {"createCode", "revokeDevice"}
INVARIANTS RevokedKeepsSlot
CHECK_DEADLOCK FALSE
