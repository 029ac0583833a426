CONSTANTS
  Email = {e1}
  Password = {p1, p2}
  SocialId = {s1}
  Token = {t1}
  Req = {r1, r2}
  Configs <- MCConfigs
  NULL = NULL
SPECIFICATION Spec
INVARIANTS TokenTakesEffectOnce
CHECK_DEADLOCK FALSE
