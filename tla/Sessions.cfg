SPECIFICATION Spec
CONSTANTS
  s1 = s1
  s2 = s2
  tool = tool
  Sessions <- MCSessionSet
  Tools <- MCTools
  ToolsOf <- MCToolsOf
  TokenBound = 2
  MaxRetries = 1
  CallBound = 1
  ClearBound = 1
SYMMETRY MCSymmetry
INVARIANTS
  UsedOnce
  EndedLeaveNoTokens
  AnswerLostOnlyByRace
  TurnsKept
  ClearedStayCleared
