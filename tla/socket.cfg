SPECIFICATION FairSpec
CONSTANTS
  Pairs = {1, 2, 3}
  Hooks = {"bell", "grid", "chat"}
  Slots = {1, 2}
  MaxDrops = 1
INVARIANTS HearsThePage ConnectedIsTrue
PROPERTIES Reconnects
CHECK_DEADLOCK FALSE
