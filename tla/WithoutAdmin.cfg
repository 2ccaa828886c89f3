CONSTANTS
  a = a
  b = b
  c = c
  x = x
  r1 = r1
  r2 = r2
  r3 = r3
  r4 = r4
  r5 = r5
  User = {a, b, c}
  Item = {x}
  Request = {r1, r2, r3, r4, r5}
  None = None
  Scenes <- OnlyRelay
  MaxFails = 0
SPECIFICATION Spec
INVARIANT NeverWithoutAdmin
