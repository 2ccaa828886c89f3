CONSTANTS
  i1 = i1
  i2 = i2
  p1 = p1
  p2 = p2
  k1 = k1
  k2 = k2
  k3 = k3
  w1 = w1
  w2 = w2
  None = None
  Image = {i1, i2}
  Poster = {p1, p2}
  Changer = {k1}
  Wants <- PostsAndAvatar
  Sweeper = {w1, w2}
  BatchSize = 2
CHECK_DEADLOCK FALSE
SPECIFICATION Spec
INVARIANTS
  NoLeak
  OneSweeper
PROPERTIES
  ImplementsStore
