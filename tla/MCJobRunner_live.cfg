SPECIFICATION FairSpec
CONSTANTS
  Runners = {r1}
  Handlers <- TwoHandlers
  KnownHandlers <- OneHandler
  BatchSize <- InPairs
  Requests <- OnePageOrUnknown
  Modes <- Appending
  Quotas = {1}
  DryRuns = {TRUE, FALSE}
  SkipLimit = 10
  MinRetryDelay = 1
  MaxRetryDelay = 3
  BackoffRandomness = 0
  ErrorDelays = {0}
  ErrorPriorities <- Unchanged
  Cancellations <- NoCancellation
  MaxJobs = 2
  MaxMishaps = 1
  MaxMishapClock = 1
  MaxInsertClock = 1
  MaxClock = 3
  r1 = r1
  r2 = r2
  move = move
  unknown = unknown
PROPERTIES EveryJobLeaves RunnerReturns
