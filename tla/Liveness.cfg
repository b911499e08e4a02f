SPECIFICATION FairSpec
CONSTANTS
  NULL = NULL
  Plans = {p1}
  Codes = {c1, c2}
  CustomerIds = {k1}
  DeviceIds = {d1}
  SessionIds = {s1}
  Apps = {a1}
  Requests = {r1, r2}
  Workers = {w1}
  SeedDays <- OneDay
  PlanDays = {}
  SESSION_TTL = 2
  MaxTime = 2
  MaxExpiry = 2
  Limits = {1}
  CodeExpiries = {NULL}
  Owners <- Linked
  MaxInFlight = 2
  MayCrash = FALSE
  Ops = {"createCode", "createCustomer", "revokeCode", "renewCustomer", "revokeSession", "logout"}
PROPERTIES EveryOperationEnds OverdueExpires
CHECK_DEADLOCK FALSE
