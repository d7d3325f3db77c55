SPECIFICATION FairSpec
CONSTANTS
  ann = ann
  bob = bob
  cat = cat
  Nobody = Nobody
  NoSheet = NoSheet
  NSlots = 2
  Sheet <- TwoDays
  MaxNow = 3
  MaxEpisode = 2
  MaxReloads = 1
  MaxServes = 1
  MaxOwed = 1
INVARIANTS
  TypeOK
  StintCountsItsTakes
  BlockAfterItsTakes
CHECK_DEADLOCK FALSE
PROPERTIES
  PressOnly
  RestsAfterShift
  WorksForWhoIsOn
  NewScheduleLands
