\* Two days of three ticks.  Two executions of the digest may overlap, for two
\* channels of which one has a run and two publications, one more than a list
\* counts.
SPECIFICATION Spec
CONSTANTS
  v1 = v1
  v2 = v2
  p1 = p1
  e1 = e1
  e2 = e2
  MaxChannel = 2
  Publishes = {v1, v2}
  Runs = {p1}
  ChannelOf <- Owner
  Execs = {e1, e2}
  Schedules <- OneTask
  ListLimit = 1
  DayLength = 3
  DigestTime = 1
  Interval = 1
  StaleThreshold = 2
  MaxTime = 4
  MaxTaskTime = 1
  MaxLag = 1
  MaxOutcomes = 1
  MaxFaults = 1
INVARIANTS
  TypeOK
  OncePerDay
  MarkedIsTried
  ReportedOnce
  ReportsTheDay
PROPERTIES
  AlertMeansSilence
SYMMETRY Symmetry
\* The days are bounded.
CHECK_DEADLOCK FALSE
