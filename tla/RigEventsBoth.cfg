\* The rig as deployed: page and uploader on one journal, nobody at the screen.
SPECIFICATION UnattendedSpec
CONSTANTS
  MaxEvents = 2
  MaxPageDeaths = 2
  MaxUploaderDeaths = 1
  MaxLost = 1
  Batch = 1
  Bad = {2}
  Wide = {1}
  WithUploader = TRUE
  OfflineBoot = FALSE
  JournalFails = FALSE
  LateArrival = TRUE
PROPERTIES MarkFollowsAnswers BacklogDrains
CHECK_DEADLOCK FALSE
