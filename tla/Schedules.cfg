\* Two pushes by two desks over two dates, read from the first date to the day after the last.
SPECIFICATION Spec
CONSTANTS
  r1 = r1
  r2 = r2
  ann = ann
  bob = bob
  cat = cat
  Rig = {r1, r2}
  Here = r1
  Seat <- MCSeat
  Person = {ann, bob, cat}
  Nobody = Nobody
  Sheet <- MCSheet
  TurnsPerShift = 2
  Offset <- MCOffset
  Days = 2
  Horizon = 24
  MaxPushes = 2
INVARIANTS TypeOK SameSheet BoardAndPersonAgree
PROPERTIES NeverGoesBack FloorFollows
CHECK_DEADLOCK FALSE
