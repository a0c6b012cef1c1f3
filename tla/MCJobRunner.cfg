SPECIFICATION Spec
CONSTANTS
  Runners = {r1, r2}
  Handlers <- TwoHandlers
  KnownHandlers <- OneHandler
  BatchSize <- InPairs
  Requests <- OnePageOrUnknown
  Modes <- AllModes
  Quotas = {2}
  DryRuns = {FALSE}
  SkipLimit = 10
  MinRetryDelay = 1
  MaxRetryDelay = 3
  BackoffRandomness = 0
  ErrorDelays <- SoonOrNever
  ErrorPriorities <- Demoted
  Cancellations <- Any
  MaxJobs = 2
  MaxMishaps = 1
  MaxMishapClock = 9
  MaxInsertClock = 1
  MaxClock = 1
  r1 = r1
  r2 = r2
  move = move
  unknown = unknown
INVARIANTS TypeOK NoJobLost
