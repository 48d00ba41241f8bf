SPECIFICATION MCSpec
CONSTANTS
  s1 = s1
  s2 = s2
  one = one
  two = two
  None = None
  Malformed = Malformed
  MaxReflections = 2
  Breadth = 2
  Simulations = 2
  MaxSteps = 2
  MaxQueries = 8
  MaxToolCalls = 3
  CallsBound = 3
  Scores = {0, 1, 2}
  SessionBound = 2
  Agents <- MCAgentTable
  Wrappers <- MCWrappers
  RootBudget <- MCRootBudget
  DepthBound = 3
  Usages = {1, 2}
  MaxUsage = 2
  WorkBound = 6
  Entries <- MCEntries
  Tasks <- MCTasks
  Explicit <- MCExplicit
  Discovered <- MCDiscovered
  Filters <- MCFilters
  RegistryBound = 3
  Sessions <- MCSessions
  Subjects <- MCSubjects
  Documents <- MCDocuments
  WebResults <- MCWebResults
  TopKs = {0, 2}
  DocumentBound = 2
  CallBound = 1
  Outputs <- MCOutputs
  Strings <- MCStrings
  Numbers = {1, 2}
  AnswerTexts <- MCAnswers
  OutputTypes <- MCOutputTypes
  Commands = {"local", "other"}
  Allowlist = {"local"}
  Listings <- MCListings
  EmptyDict = EmptyDict
  RiskMap <- MCRiskMap
  PinBound = 2
  ToolInputs <- MCToolInputs
  Arguments <- MCArguments
  Union = Union
\* Runs, stacks and calls end.
CHECK_DEADLOCK FALSE
INVARIANTS
  StopsWhenOut
  BestScored
  SpendBounded
  OwnBudgetOnly
  RunsPreferred
  ForeignOnlyByOverlap
  VerdictsExact
  AnswersParsed
  DriftReported
  ValidatorsAgree
