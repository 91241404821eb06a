SPECIFICATION FairSpec
CONSTANTS
  Producers = {p1, p2}
  Elements = {e1, e2, e3, e4}
  Null = Null
  Capacity = 2
  RetryTimes = 2
INVARIANTS
  TypeOK
  NothingLost
PROPERTIES
  FifoSpec
  Delivered
