CONSTANTS
  Gen = {g1, g2}
  CodeNo = {k1}
  MaxCodes = 0
  Take = 1
  Req = {r1, r2}
  Enabled <- MCEnabled
  NULL = NULL
SPECIFICATION Spec
INVARIANTS ActiveSecretWasConfirmed
CHECK_DEADLOCK FALSE
