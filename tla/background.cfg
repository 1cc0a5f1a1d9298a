\* Videos: two requests at a time, and up to two crashes anywhere.
\* Streams: two backends, a channel that begins and ends twice.
SPECIFICATION MCSpec
CONSTANTS
  Size = 2
  MaxChunk = 2
  Requests = {r1, r2}
  Tasks = {t1}
  Kinds = {"mp4", "webm", "unplayable"}
  Deletion = TRUE
  MaxCrashes = 2
  MaxToolFailures = 1
  Channels = {ch1}
  Followers = {f1, f2}
  Backends = {k1, k2}
  NoChannel = NoChannel
  MaxChanges = 4
  MaxFailures = 1
  MaxStops = 1
INVARIANTS AiredIsRecorded BellOncePerStream
PROPERTIES PreparationEnds FollowsTheStreams
\* A finished video with all bounds used is the end.
CHECK_DEADLOCK FALSE
