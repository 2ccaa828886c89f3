CONSTANTS
  c1 = c1
  c2 = c2
  c3 = c3
  w1 = w1
  w2 = w2
  Contact = {c1, c2, c3}
  Worker = {w1, w2}
  Replying = {c1, c2}
  BatchSize = 3
  Lease = 4
  BaseBackoff = 1
  MaxBackoff = 2
  Scenes <- MailScenes
SPECIFICATION FairSpec
INVARIANTS
  ExclusiveSend
  DuplicatesExplained
  OneReply
  NothingLost
PROPERTIES
  ImplementsMailbox
  Settled
