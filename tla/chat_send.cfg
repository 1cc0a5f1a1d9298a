SPECIFICATION Spec
CONSTANTS
  u1 = u1
  Accounts = {u1}
  Conns = {c1, c2}
  AccountOf <- OneAccount
  Texts = {t1}
  BadText = BadText
  Burst = 2
  MaxDeaths = 1
SYMMETRY Symmetry
INVARIANTS BarredStaysOut SlowModeHolds RateHolds CounterHasLife DuplicateDropped
