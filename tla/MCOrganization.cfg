CONSTANTS
  Org = {o1, o2}
  Slug = {a, b}
  User = {u1, u2}
  Row = {m1, m2, m3}
  Req = {r1, r2}
  NewRoles = {"owner", "admin", "member"}
  NULL = NULL
SPECIFICATION Spec
SYMMETRY Symmetry
INVARIANTS TypeOK NoDuplicates
PROPERTIES UndisturbedRemovalIsRight
\* No client has to send a request: when none is in flight the service may rest.
CHECK_DEADLOCK FALSE
