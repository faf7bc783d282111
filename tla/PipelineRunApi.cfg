\* One run created by the API: two worker threads, one watchdog, one request.
SPECIFICATION Spec
CONSTANTS
  Runs = {r1}
  BeatRuns = {}
  Workers = {w1, w2}
  Watchdogs = {d1}
  Admins = {a1}
  NoMsg = NoMsg
  MaxRetries = 1
  CeleryMaxRetries = 1
  MaxCrashes = 1
  MaxRedeliveries = 0
  MaxRequests = 1
  MaxApiCrashes = 1
  MaxDatabaseErrors = 1
INVARIANTS TypeOK PendingIsQueued
PROPERTIES KeepsThread
SYMMETRY Symmetry
