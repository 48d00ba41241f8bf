\* Three model calls or streams, one tool call without an approval store.
SPECIFICATION FairSpec
CONSTANTS
  Callers <- MCCallers
  AsyncCallers <- MCAsyncCallers
  Tools <- MCTools
  UnknownTool = unknown
  KeyedTools <- MCKeyed
  LimitedTools <- MCKeyed
  RetryTools <- MCKeyed
  CredTools <- MCCredentialed
  Keys <- MCKeys
  NoKey = nokey
  RateLimit = 1
  MaxRetries = 1
  HasTimeout = TRUE
  HasApprovalStore = FALSE
  MaxToolCalls = unlimited
  MaxTokens = 2
  Unlimited = unlimited
  ToolCallBound = 1
  ModelCallBound = 3
  Usages <- MCUsages
  MaxUsage = 2
  c1 = c1
  c2 = c2
  keyed = keyed
  credentialed = credentialed
  k1 = k1
INVARIANTS
  TokenOvershootBounded
  StreamsBalanced
PROPERTIES
  CallsEnd
