SPECIFICATION Spec
CONSTANTS
  c1 = c1
  c2 = c2
  e1 = e1
  e2 = e2
  e3 = e3
  NoItem = NoItem
  Channels = {c1, c2}
  Execs = {e1, e2, e3}
  ChannelOf <- Shared
  Items = {1, 2}
  MaxRedeliveries = 1
SYMMETRY Symmetry
INVARIANTS TypeOK ClaimsAreDistinct
PROPERTY ImplementsLedger
