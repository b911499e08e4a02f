SPECIFICATION Spec
CONSTANTS
  NULL = NULL
  Plans = {p1}
  Codes = {c1}
  CustomerIds = {k1}
  DeviceIds = {d1, d2}
  SessionIds = {s1, s2}
  Apps = {a1, a2}
  Requests = {r1}
  Workers = {w1, w2}
  SeedDays <- OneDay
  PlanDays = {}
  SESSION_TTL = 2
  MaxTime = 1
  MaxExpiry = 2
  Limits = {1, 2}
  CodeExpiries = {NULL}
  Owners <- AnyOwner
  MaxInFlight = 2
  MayCrash = TRUE
  Ops = {"createCode", "createCustomer", "updateLimit", "suspendCode", "reactivateCode", "revokeCode", "updateCustomer", "suspendCustomer", "reactivateCustomer", "renewCustomer", "removeCustomer", "revokeDevice", "blockDevice", "unblockDevice", "removeDevice"}
SYMMETRY Symmetry
INVARIANTS TypeOK
PROPERTIES CodeLifecycle SessionCapped RevocationCutsAccess RevocationIsTerminal SuspensionHolds PaidTimeGrows ImplementsSeats
CHECK_DEADLOCK FALSE
