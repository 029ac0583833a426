CONSTANTS
  Gen = {g1, g2}
  CodeNo = {k1}
  MaxCodes = 2
  Take = 1
  Req = {r1, r2}
  Enabled <- MCEnabled
  NULL = NULL
SPECIFICATION Spec
SYMMETRY Symmetry
INVARIANTS TypeOK SetupCodesMatchSecret UsesBounded
PROPERTIES DrainedCodeIsDead
\* No client has to send a request: when none is in flight the service may rest.
CHECK_DEADLOCK FALSE
