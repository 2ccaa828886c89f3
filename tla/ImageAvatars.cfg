CONSTANTS
  i1 = i1
  i2 = i2
  p1 = p1
  p2 = p2
  k1 = k1
  k2 = k2
  k3 = k3
  w1 = w1
  w2 = w2
  None = None
  Image = {i1, i2}
  Poster = {}
  Changer = {k1, k2}
  Wants <- Removed
  Sweeper = {w1}
  BatchSize = 1
CHECK_DEADLOCK FALSE
SPECIFICATION FairSpec
INVARIANTS
  AttachedIsReferenced
PROPERTIES
  Reclaimed
