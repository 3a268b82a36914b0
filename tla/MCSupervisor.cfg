SPECIFICATION FairSpec
CONSTANTS
  Jobs <- MCJobs
  Runs <- MCRuns
  MaxSpawns = 2
  Scenarios <- MCScenarios
INVARIANTS TypeOK OneExecution WorkerReserved JournalTruth AnswersAgree QueueCancelledNeverRuns
PROPERTIES FifoDispatch QueueDrains
CHECK_DEADLOCK FALSE
