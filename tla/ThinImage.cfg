CONSTANTS
  r1 = r1
  r2 = r2
  r3 = r3
  r4 = r4
  b1 = b1
  b2 = b2
  u1 = u1
  u2 = u2
  a1 = a1
  Request = {r1, r2, r3, r4}
  Browser = {b1, b2}
  User = {u1, u2}
  Addr = {a1}
  None = None
  Keep = Keep
  TTL = 2
  MaxRows = 1
  Window = 1
  RateMax = 1
  Retention = 2
  Scenes <- OneThin
SPECIFICATION Spec
INVARIANT EstimateHolds
