SPECIFICATION AccountsSpec
CONSTANTS
  u1 = u1
  u2 = u2
  c1 = c1
  c2 = c2
  Users = {u1, u2}
  Registrations = {c1, c2}
  Targets = {0, 3, 6}
  MaxUsed = 1
  Selections <- AllOrRss
INVARIANTS
  FreshUpgradeSucceeds
SYMMETRY Symmetry
