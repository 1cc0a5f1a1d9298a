SPECIFICATION Spec
CONSTANTS
  Videos = {1, 2}
  Runs = {1, 2}
  Size = 2
  Retries = 1
  MaxFaults = 1
  MaxVisits = 2
  Accounts = {one, two}
  Guest = guest
  MaxChanges = 2
  Budget = 2
INVARIANTS ShownIsControlled CancelledStaysAway OwnChangesShown NothingOfOthers
PROPERTIES UploadEnds
CHECK_DEADLOCK FALSE
