CONSTANTS
  Email = {e1, e2}
  Password = {p1, p2}
  SocialId = {s1}
  Token = {t1, t2}
  Req = {r1, r2, r3}
  Configs <- MCConfigs
  NULL = NULL
SPECIFICATION Spec
SYMMETRY Symmetry
INVARIANTS TypeOK VerifiedHasEvidence SocialIdentityUnique EffectsBounded NoSilentStrand
PROPERTIES PasswordChangesByResetOnly DrainedTokenIsDead
\* No client has to send a request: when none is in flight the service may rest.
CHECK_DEADLOCK FALSE
