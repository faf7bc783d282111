SPECIFICATION Spec
CONSTANTS
  s1 = s1
  s2 = s2
  s3 = s3
  Planners = {s1, s2, s3}
  KindOf <- Kinds
  MayCrash = {}
  DailyVideos = 1
  MaxVideos = 1
  MaxNews = 2
  MaxRows = 3
  MaxDays = 1
INVARIANTS DailyVideosWithinLimit
\* The planners end, and the days are bounded.
CHECK_DEADLOCK FALSE
