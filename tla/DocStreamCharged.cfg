\* query_model_stream: budget is checked after the stream ends.
SPECIFICATION Spec
CONSTANTS
  Callers <- MCCallers
  AsyncCallers <- MCAsyncCallers
  Tools <- MCTools
  UnknownTool = unknown
  KeyedTools <- MCKeyed
  LimitedTools <- MCKeyed
  RetryTools <- MCKeyed
  CredTools <- MCCredentialed
  Keys <- MCKeys
  NoKey = nokey
  RateLimit = 1
  MaxRetries = 1
  HasTimeout = TRUE
  HasApprovalStore = TRUE
  MaxToolCalls = 1
  MaxTokens = 2
  Unlimited = unlimited
  ToolCallBound = 0
  ModelCallBound = 1
  Usages <- MCUsages
  MaxUsage = 2
  c1 = c1
  c2 = c2
  keyed = keyed
  credentialed = credentialed
  k1 = k1
INVARIANTS
  EndedStreamsCharged
