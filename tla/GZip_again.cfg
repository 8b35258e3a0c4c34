\* the same Response twice
CONSTANTS
  MinimumSizes = {0}
  MaxUnits = 1
  MaxBodies = 1
  MaxRequests = 2
  Stacks <- MCStacks
  Policies <- MCPolicies
  Answers <- MCAnswers
  a = a
  b = b
  s1 = s1
  s2 = s2
  Values = {a, b}
  Slots = {s1, s2}
  MaxSent = 0
SYMMETRY MCSymmetry
SPECIFICATION FollowSpec
INVARIANTS DecodesAgain
CHECK_DEADLOCK FALSE
