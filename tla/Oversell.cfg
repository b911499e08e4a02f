SPECIFICATION Spec
CONSTANTS
  NULL = NULL
  Plans = {p1}
  Codes = {c1}
  CustomerIds = {k1, k2}
  DeviceIds = {d1, d2}
  SessionIds = {s1, s2}
  Apps = {a1, a2}
  Requests = {r1, r2}
  Workers = {}
  SeedDays <- OneDay
  PlanDays = {}
  SESSION_TTL = 2
  MaxTime = 0
  MaxExpiry = 3
  Limits = {1}
  CodeExpiries = {NULL}
  Owners <- NoOwner
  MaxInFlight = 3
  MayCrash = FALSE
  Ops = {"createCode"}
SYMMETRY Symmetry
INVARIANTS NoOverselling
