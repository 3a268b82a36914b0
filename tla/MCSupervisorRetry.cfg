SPECIFICATION Spec
CONSTANTS
  Jobs <- MCJobs
  Runs <- MCRuns
  MaxSpawns = 2
  Scenarios <- Retried
INVARIANT RetryReplays
CHECK_DEADLOCK FALSE
