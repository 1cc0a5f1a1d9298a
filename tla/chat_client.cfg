SPECIFICATION Spec
CONSTANTS
  Keep = 2
  HistoryPage = 2
  SincePage = 1
  Fields = {"poll"}
  Sanctions = {"timeout"}
  MaxRoomChanges = 3
  MaxDrops = 1
  MaxEntries = 1
INVARIANTS NothingMissed DeletedGone StateIsCurrent OwnMarksAreTrue
CHECK_DEADLOCK FALSE
