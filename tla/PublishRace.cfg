SPECIFICATION Spec
CONSTANTS
  p1 = p1
  p2 = p2
  Platforms = {p1, p2}
  Orders <- BothOrders
  Tasks = {t1, t2}
  Nodes = {n1}
  MaxQueue = 1
  MaxUploads = 2
  MaxFaults = 1
SYMMETRY Symmetry
INVARIANTS TypeOK UploadsAreSerial NewestUploadKnown
PROPERTY ImplementsLedger
\* A video that every platform has taken needs no more steps.
CHECK_DEADLOCK FALSE
