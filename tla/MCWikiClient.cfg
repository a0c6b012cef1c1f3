SPECIFICATION FairSpec
CONSTANTS
  Clients = {c1}
  Requests <- AllRequests
  WithPassword = {c1}
  Watching = {c1}
  Attempts = 2
  EditAttempts = 2
  TokenRenewals = 2
  Human = Human
  MaxCalls = 2
  MaxFaults = 2
  MaxHumanEdits = 2
  c1 = c1
INVARIANTS TypeOK NeverLoggedOut WrittenOnce HealthyCallsSucceed
PROPERTIES PageSpec CallsReturn
CHECK_DEADLOCK FALSE
