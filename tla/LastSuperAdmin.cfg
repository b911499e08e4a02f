SPECIFICATION Spec
CONSTANTS
  NULL = NULL
  Admins = {root, a2}
  Root = root
  AdminSessions = {s1, s2}
  Handlers = {h1, h2}
  Passwords = {w1}
  RootPassword = w1
  AskedRoles = {"SUPER_ADMIN", "ADMIN"}
  LostAt = {}
  AdminActs = {"create", "update"}
SYMMETRY HandlerSymmetry
INVARIANTS SomebodyInCharge
