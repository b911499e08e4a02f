SPECIFICATION Spec
CONSTANTS
  NULL = NULL
  Admins = {root}
  Root = root
  AdminSessions = {s1, s2, s3}
  Handlers = {h1, h2}
  Passwords = {w1, w2}
  RootPassword = w1
  AskedRoles = {}
  LostAt = {}
  AdminActs = {"password", "refresh"}
SYMMETRY HandlerSymmetry
INVARIANTS NoSessionUnderOldPassword
