\* One rig through its turns, and a block that a push may put past its boundary.
SPECIFICATION FairSpec
CONSTANTS
  Rig = {r1}
  Turn = {t1}
  Down = {}
  Fault = {}
  Overrun = {v1}
  Standby = standby
  SilentAfter = 0
  IdleGrace = 0
  BehindAfter = 0
  MaxFailures = 1
  MaxMoves = 1
INVARIANTS TypeOK OneCauseOneAlert
PROPERTIES SweepTellsTheTruth BoardSettles
CHECK_DEADLOCK FALSE
