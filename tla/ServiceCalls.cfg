\* Two conversations, or one video that two tasks publish.
SPECIFICATION FairParts
CONSTANTS
  c1 = c1
  c2 = c2
  p1 = p1
  p2 = p2
  t1 = t1
  t2 = t2
  User = User
  Calls = {c1, c2}
  MaxGrants = 3
INVARIANTS
  TypeOK
  TokenMatchesGrant
PROPERTIES
  KeepsPromise
  CallEnds
  EventuallyRecorded
\* Nothing is left to do once every call is settled, or every platform has taken
\* the video.
CHECK_DEADLOCK FALSE
