SPECIFICATION Spec
CONSTANTS
  Tabs = {t1, t2}
  Here = t1
  Doors = {t1}
  MaxRows = 3
  MaxLosses = 1
INVARIANTS OneLiveToken StoredIsUsable
PROPERTIES InterfaceKept
CHECK_DEADLOCK FALSE
