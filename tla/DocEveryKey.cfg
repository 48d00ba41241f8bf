SPECIFICATION MCSpec
CONSTANTS
  u1 = u1
  w1 = w1
  w2 = w2
  p1 = p1
  p2 = p2
  Users <- MCUsers
  Watchers <- MCWatchers
  Policies <- MCPolicies
  MtimeBound = 2
  CallbackBound = 1
  Nobody = Nobody
  pay = pay
  read = read
  finance = finance
  intern = intern
  None = None
  NotANumber = NotANumber
  Malformed = Malformed
  GenericKeys <- MCGenericKeys
  Applies <- Holds
  Files <- MCFiles
  ToolAttributes <- MCToolAttributes
  Queries <- MCQueries
  Cases <- MCCases
  Members <- MCMembers
  Whitelist <- MCWhitelist
  RiskDefaults <- MCRiskDefaults
  Stores = {TRUE, FALSE}
INVARIANTS
  EveryKeyMustMatch
