\* Two workers over one ledger.
SPECIFICATION FairSpec
CONSTANTS
  r1 = r1
  r2 = r2
  t1 = t1
  t2 = t2
  off = off
  w1 = w1
  w2 = w2
  Rig = {r1}
  Turn = {t1, t2}
  Standby = off
  Filing <- TurnFiling
  Worker = {w1, w2}
  Limit = 1
  MaxRows = 3
  MaxFails = 1
  MaxReplays = 0
INVARIANTS TypeOK FactsOfProjected
PROPERTIES EveryRowProjected
