\* Planning: a scrape, a request and a forced request that may overlap, over two
\* days; the scrape may be lost in the middle, and the request when nothing is
\* forced.  The other parts: two scrapes, three requests to the limiter, two
\* registrations, two requests on channels.
SPECIFICATION SpecParts
CONSTANTS
  s1 = s1
  s2 = s2
  s3 = s3
  r1 = r1
  r2 = r2
  r3 = r3
  u1 = u1
  u2 = u2
  f1 = f1
  f2 = f2
  g1 = g1
  g2 = g2
  k1 = k1
  n1 = n1
  n2 = n2
  Planners = {s1, s2, s3}
  KindOf <- Forced
  MayCrash = {s1, s2}
  DailyVideos = 1
  MaxVideos = 1
  MaxNews = 1
  MaxRows = 2
  MaxDays = 2
  Scrapers = {r1, r2}
  Sources = {f1, f2}
  Guids = {g1, g2}
  ListLimit = 2
  Requests = {r1, r2, r3}
  Calls <- CallsOf
  Routes <- TwoRoutes
  Window = 2
  Concurrent = 2
  MaxInstant = 3
  Users = {u1, u2}
  Registrations = {r1, r2}
  Targets = {0, 5}
  MaxUsed = 1
  Selections <- JustRss
  People = {u1, u2}
  HasProfile = {u1, u2}
  Holds <- Held
  ChannelIds = {k1}
  FeedIds = {f1, f2}
  Names = {n1, n2}
  Clients = {r1, r2}
  Ops <- Operations
INVARIANTS
  OncePerDay
  DatedMeansPlanned
  PlatformTypes
  SchemaMatchesRevision
  RegisteredIsUsable
  SyncReachesEveryone
  AnswersHold
  OvershootBounded
  StatusMeansStored
  NewsIsDispatched
CHECK_DEADLOCK FALSE
