\* two requests; responses of three units in three messages, too small or not
CONSTANTS
  MinimumSizes = {0, 2}
  MaxUnits = 3
  MaxBodies = 3
  MaxRequests = 2
  Stacks <- MCStacks
  Policies <- MCPolicies
  Answers <- MCAnswers
  a = a
  b = b
  s1 = s1
  s2 = s2
  Values = {a, b}
  Slots = {s1, s2}
  MaxSent = 3
SYMMETRY MCSymmetry
SPECIFICATION FollowSpec
INVARIANTS BodyTrue SessionCarried CorsTrue
PROPERTY WireInOrder
CHECK_DEADLOCK FALSE
