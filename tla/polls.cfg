SPECIFICATION Spec
CONSTANTS
  Accounts = {a1, a2}
  Options = {o1, o2}
  Ballots = {b1}
  Readers = {r1, r2}
  Updater = updater
  NoVote = NoVote
  Missing = Missing
  MaxLosses = 1
  MaxFaults = 0
  MaxRestarts = 0
SYMMETRY Symmetry
INVARIANTS LiveTallyExact ResultKeepsAnswered
PROPERTIES ResultFrozen
CHECK_DEADLOCK FALSE
CONSTRAINT BeforeTear
