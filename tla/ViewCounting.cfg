CONSTANTS
  q1 = q1
  q2 = q2
  q3 = q3
  q4 = q4
  v1 = v1
  v2 = v2
  t1 = t1
  t2 = t2
  Request = {q1, q2, q3, q4}
  Visitor = {v1, v2}
  Thread = {t1}
  Nobody = Nobody
  VisitorOf <- Viewers
  ThreadOf <- OneThread
  Window = 2
  MaxVisitors = 1
  MaxBroken = 1
SPECIFICATION FairSpec
INVARIANTS
  Conserved
  CleanExitWritesAll
PROPERTIES
  OncePerWindow
  ShutdownEnds
  EventuallyWritten
