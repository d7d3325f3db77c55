\* Wrong and right passwords in flight together, one strike's room.
SPECIFICATION FairSpec
CONSTANTS
  a1 = a1
  a2 = a2
  r1 = r1
  Address = {a1, a2}
  Loopback = lo
  Email = {e1, e2}
  Rig = {r1}
  Nobody = none
  RigAddresses <- Placed
  RigTokens <- Issued
  Cost = 2
  Rate <- Rates
  Burst <- Bursts
  BucketsTracked = 1
  After = 1
  FirstWait = 1
  MaxWait = 1
  Doublings = 2
  StrikesTracked = 1
  MaxOpen = 2
INVARIANTS TypeOK MeterHolds CoolOffEarned
PROPERTIES RightPasswordGetsIn
CHECK_DEADLOCK FALSE
