CONSTANTS
  Method = {"totp"}
  MaxAttempts = 2
  WindowSeconds = 2
  LockoutSeconds = 4
  Req = {r1, r2}
SPECIFICATION Spec
INVARIANTS LockoutLasts
