\* One worker, two rigs whose ids commit out of order; a failure and a replay.
SPECIFICATION FairSpec
CONSTANTS
  r1 = r1
  r2 = r2
  t1 = t1
  t2 = t2
  off = off
  w1 = w1
  w2 = w2
  Rig = {r1, r2}
  Turn = {t1, t2}
  Standby = off
  Filing <- MixedFiling
  Worker = {w1}
  Limit = 2
  MaxRows = 3
  MaxFails = 1
  MaxReplays = 1
INVARIANTS FactsAreTheReading
PROPERTIES ReplayComesBackRight
