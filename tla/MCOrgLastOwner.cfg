\* updateMemberRole is never called: removals alone can leave no owner.
CONSTANTS
  Org = {o1}
  Slug = {a}
  User = {u1, u2}
  Row = {m1, m2}
  Req = {r1, r2}
  NewRoles = {}
  NULL = NULL
SPECIFICATION Spec
PROPERTIES RemovalLeavesOwner
CHECK_DEADLOCK FALSE
