SPECIFICATION FairSpec
CONSTANTS
  Accounts = {a1}
  Options = {o1, o2}
  Ballots = {b1}
  Readers = {r1}
  Updater = updater
  NoVote = NoVote
  Missing = Missing
  MaxLosses = 1
  MaxFaults = 1
  MaxRestarts = 1
PROPERTIES ExpiredCloses EndIsTold
CHECK_DEADLOCK FALSE
