SPECIFICATION FairSpec
CONSTANTS
  p1 = p1
  p2 = p2
  Platforms = {p1, p2}
  Orders <- OneOrder
  Tasks = {t1}
  Nodes = {}
  MaxQueue = 1
  MaxUploads = 2
  MaxFaults = 0
PROPERTY FailedIsRetried
\* A video that every platform has taken needs no more steps.
CHECK_DEADLOCK FALSE
