\* Chunks, completes and deletions in any order, two preparations, and a crash.
SPECIFICATION Spec
CONSTANTS
  Size = 3
  MaxChunk = 2
  Requests = {r1, r2, r3}
  Tasks = {t1, t2}
  Kinds = {"mp4", "webm", "unplayable"}
  Deletion = TRUE
  MaxCrashes = 1
  MaxToolFailures = 1
CONSTRAINT FewAfterCrash
SYMMETRY Symmetry
INVARIANTS PartIsPrefix ReadyIsWhole NeverAheadOfDisk FailedLeavesNothing
PROPERTIES StatusForward
\* A video that was deleted, or is finished with all bounds used, is the end.
CHECK_DEADLOCK FALSE
