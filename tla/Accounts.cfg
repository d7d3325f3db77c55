\* Two requests at a time on the account of one person, invited or minted.
SPECIFICATION FairSpec
CONSTANTS
  Person = {p1}
  Email = {e1}
  Manager = manager
  None = none
  Slot = {q1, q2}
  LinkId = {1, 2, 3, 4}
  SessionId = {1, 2}
  MaxLinks = 2
  MaxSessions = 2
INVARIANTS TypeOK
PROPERTIES PasswordEndsSessions LinkSetsOnePassword EveryRequestEnds
CHECK_DEADLOCK FALSE
