\* RerunEnvironment: differences in call count are captured as divergences.
SPECIFICATION Spec
CONSTANTS
  Values <- MCValues
  Requests <- MCRequests
  Credentialed <- MCCredentialed
  RunBound = 3
  v1 = v1
  v2 = v2
  plain = plain
  secret = secret
SYMMETRY MCSymmetry
INVARIANTS
  RerunCountsCalls
