\* A run dispatched by beat, nothing failing.
SPECIFICATION Spec
CONSTANTS
  Runs = {r1}
  BeatRuns = {r1}
  Workers = {w1}
  Watchdogs = {d1}
  Admins = {}
  NoMsg = NoMsg
  MaxRetries = 1
  CeleryMaxRetries = 0
  MaxCrashes = 0
  MaxRedeliveries = 0
  MaxRequests = 0
  MaxApiCrashes = 0
  MaxDatabaseErrors = 0
INVARIANTS EveryPendingIsQueued
