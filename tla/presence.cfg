SPECIFICATION Spec
CONSTANTS
  u1 = u1
  i1 = i1
  i2 = i2
  c1 = c1
  c2 = c2
  c3 = c3
  Accounts = {u1}
  Conns <- Sockets
  Instances = {i1, i2}
  AccountOf <- OfAccount
  InstanceOf <- OnBackend
  Free = Free
  NoConn = NoConn
  MaxCrashes = 1
  MaxFailures = 2
INVARIANTS PeersAgree  PresenceExact LockHasHolder
SYMMETRY Symmetry
CHECK_DEADLOCK FALSE
