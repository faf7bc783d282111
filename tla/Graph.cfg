\* Three executions of a run, two of which may overlap, and one of which may
\* be lost, or fail to be recorded.  The deliveries are bounded, so the system
\* stops.
SPECIFICATION Spec
CONSTANTS
  Execs = {e1, e2}
  None = None
  MaxRetries = 1
  IdeaMaxRetries = 3
  MaxLag = 1
  MaxExecutions = 3
  MaxFaults = 1
INVARIANTS TypeOK OnlyLossDuplicates CompletedRowMatches IdeasWithinLimit ReleasedIsUnused
PROPERTIES PublishedStays KeepsThread
SYMMETRY Symmetry
CHECK_DEADLOCK FALSE
