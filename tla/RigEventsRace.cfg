\* Two processes compacting one file.
SPECIFICATION Spec
CONSTANTS
  MaxEvents = 2
  MaxPageDeaths = 1
  MaxUploaderDeaths = 0
  MaxLost = 0
  Batch = 2
  Bad = {}
  Wide = {}
  WithUploader = TRUE
  OfflineBoot = FALSE
  JournalFails = FALSE
  LateArrival = FALSE
INVARIANTS NoEventVanishes
CHECK_DEADLOCK FALSE
