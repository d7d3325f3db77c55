\* The page alone, with everything that can go wrong around it, and arrival.
SPECIFICATION FairSpec
CONSTANTS
  MaxEvents = 3
  MaxPageDeaths = 1
  MaxUploaderDeaths = 0
  MaxLost = 1
  Batch = 2
  Bad = {2}
  Wide = {1}
  WithUploader = FALSE
  OfflineBoot = TRUE
  JournalFails = TRUE
  LateArrival = TRUE
INVARIANTS TypeOK PromiseKept
PROPERTIES ImplementsDelivery PromisedArrives
CHECK_DEADLOCK FALSE
