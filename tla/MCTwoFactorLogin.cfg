SPECIFICATION Spec
CONSTANTS
  u1 = u1
  u2 = u2
  r1 = r1
  r2 = r2
  r3 = r3
  NULL = NULL
  Users = {u1, u2}
  Requests = {r1, r2}
  SessionIds = {s1}
  s1 = s1
  Roles = {"admin", "user"}
  p1 = p1
  p2 = p2
  Passwords = {p1, p2}
  Methods = {"totp", "email"}
  CodeMethods = {"email"}
  Features = {"emailPassword", "twoFactor", "backupCodes", "sessionManagement"}
  Handlers <- MCHandlers
  RolePermissions <- MCRolePermissions
  SuperAdminRoles = {}
  AccessKey = "access"
  ChallengeSecret = NULL
  MaxChanges = 2
SYMMETRY Symmetry
INVARIANTS TypeOK AdmittedByGrant RevokedOnce
PROPERTIES ImplementsSecondFactor ClaimsFromOneRow
CHECK_DEADLOCK FALSE
