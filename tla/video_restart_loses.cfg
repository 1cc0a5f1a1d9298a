\* A playable upload, one crash, no ffmpeg failure.
SPECIFICATION Spec
CONSTANTS
  Size = 3
  MaxChunk = 2
  Requests = {r1}
  Tasks = {t1}
  Kinds = {"mp4", "webm"}
  Deletion = FALSE
  MaxCrashes = 1
  MaxToolFailures = 0
INVARIANT RestartKeepsGoodVideo
\* A finished video with all bounds used is the end.
CHECK_DEADLOCK FALSE
