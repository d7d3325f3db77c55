\* One sender, cuts, a restart of the worker, and retention.
SPECIFICATION FairSpec
CONSTANTS
  front = front
  wrist = wrist
  Camera = {front, wrist}
  Limit = 1
  WithUploader = FALSE
  PendingExpires = FALSE
  ArchiveExpires = TRUE
  LateArrival = FALSE
  MaxPageDeaths = 0
  MaxLost = 0
  MaxCut = 1
  MaxCopyCut = 1
  MaxWorkerDeaths = 1
PROPERTIES TakenArchives
