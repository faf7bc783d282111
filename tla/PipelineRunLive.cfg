\* An API run and a beat run share one worker thread and one watchdog; a
\* thread or the watchdog may be lost, and an execution redelivered. 
\* No symmetry: liveness.
SPECIFICATION Spec
CONSTANTS
  Runs = {r1, r2}
  BeatRuns = {r2}
  Workers = {w1}
  Watchdogs = {d1}
  Admins = {}
  NoMsg = NoMsg
  MaxRetries = 1
  CeleryMaxRetries = 0
  MaxCrashes = 1
  MaxRedeliveries = 1
  MaxRequests = 0
  MaxApiCrashes = 0
  MaxDatabaseErrors = 0
INVARIANTS RequeueBudget
PROPERTIES EventuallySettled
