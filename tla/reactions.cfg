SPECIFICATION Spec
CONSTANTS
  u1 = u1
  Accounts = {u1}
  Messages = {m1, m2}
  Emojis = {e1, e2, e3}
  Conns = {c1, c2}
  AccountOf <- OneAccount
  Cap = 1
  Flushers = {f1, f2}
  NoMessage = NoMessage
  NoEmoji = NoEmoji
  Untold = Untold
  Failing = TRUE
SYMMETRY Symmetry
INVARIANTS CapWithinConnections ShownIsCounted
CHECK_DEADLOCK FALSE
