\* Page and uploader sending; whatever lands, lands whole.
SPECIFICATION Spec
CONSTANTS
  front = front
  Camera = {front}
  Limit = 2
  WithUploader = TRUE
  PendingExpires = TRUE
  ArchiveExpires = FALSE
  LateArrival = TRUE
  MaxPageDeaths = 1
  MaxLost = 1
  MaxCut = 0
  MaxCopyCut = 1
  MaxWorkerDeaths = 1
INVARIANTS TypeOK ReleasedIsHeld
