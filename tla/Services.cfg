SPECIFICATION MCSpec
CONSTANTS
  c1 = c1
  c2 = c2
  c3 = c3
  Callers <- MCCallers
  FailureThreshold = 2
  FailureBound = 5
  t1 = t1
  t2 = t2
  r1 = r1
  r2 = r2
  Threads <- MCThreads
  MaxCalls = 2
  Window = 3
  MaxDelay = 1
  ClockBound = 7
  Emitters <- MCEmitters
  EventBound = 3
  TornBound = 2
  Requests <- MCRequests
  GrantBound = 2
  Queriers <- MCQueriers
  MaxRetries = 2
  Readers <- MCReaders
  VersionBound = 2
  Clients <- MCClients
  TransportBound = 2
  RequestBound = 4
INVARIANTS
  WindowKept
  LossVisible
  FileOrder
  OneUsePerApproval
  StatsBelong
  StaleOnlyWhenHeld
  AnswersBelong
  OrphanOnlyByFailure
PROPERTIES
  Recovers
  RequestsEnd
