SPECIFICATION Spec
CONSTANTS
  NULL = NULL
  Plans = {p1}
  Codes = {c1}
  CustomerIds = {k1, k2}
  DeviceIds = {d1, d2}
  SessionIds = {s1, s2}
  Apps = {a1, a2}
  Requests = {r1, r2}
  Workers = {w1}
  SeedDays <- Unseeded
  PlanDays = {1}
  SESSION_TTL = 2
  MaxTime = 2
  MaxExpiry = 2
  Limits = {1}
  CodeExpiries = {NULL}
  Owners <- AnyOwner
  MaxInFlight = 3
  MayCrash = TRUE
  Ops = {"createPlan", "updatePlan", "removePlan", "createCode", "createCustomer", "renewCustomer", "removeCustomer", "removeDevice", "revokeDevice"}
SYMMETRY Symmetry
INVARIANTS SessionAnchored ExpiredIsOverdue PlanIsKept CustomerFitsLimit
CHECK_DEADLOCK FALSE
