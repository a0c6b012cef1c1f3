SPECIFICATION OneModeEachSpec
CONSTANTS
  Runners = {r1}
  Handlers <- TwoHandlers
  KnownHandlers <- TwoHandlers
  BatchSize <- InPairs
  Requests <- OnePageOrUnknown
  Modes <- AppendOrReplace
  Quotas = {3}
  DryRuns = {FALSE}
  SkipLimit = 1
  MinRetryDelay = 1
  MaxRetryDelay = 3
  BackoffRandomness = 0
  ErrorDelays = {0}
  ErrorPriorities <- Unchanged
  Cancellations <- NoCancellation
  MaxJobs = 3
  MaxMishaps = 2
  MaxMishapClock = 9
  MaxInsertClock = 0
  MaxClock = 3
  r1 = r1
  r2 = r2
  move = move
  unknown = unknown
INVARIANTS ReplacedIsNotRunLast QuotaIsKept OldestIsNotPassedOverTwice
PROPERTIES CrashLoopIsSlow
