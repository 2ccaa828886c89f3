CONSTANTS
  r1 = r1
  r2 = r2
  r3 = r3
  t1 = t1
  k1 = k1
  Request = {r1, r2, r3}
  Thread = {t1}
  Key = {k1}
  NoKey = NoKey
  NoRecord = NoRecord
  ThreadOf <- OneThread
  KeyOf <- ReusedKey
  BodyOf <- MixedBodies
  Configured = {"unique", "ssi", "pessimistic", "naive"}
  MaxAttempts = 2
SPECIFICATION Spec
INVARIANTS
  OnePostPerKey
  KeyRecordedWithPost
  AnswerIsStored
SYMMETRY Repetition
PROPERTIES
  ImplementsLog
