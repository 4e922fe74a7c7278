\* The chat may end, hence no deadlock check.
SPECIFICATION Spec
CONSTANTS
  c1 = c1
  c2 = c2
  Id = {c1, c2}
  NoId = none
  Rounds <- MCRounds
  MaxIterations = 2
  MaxTurns = 2
  MaxResumes = 1
  MaxLost = 1
PROPERTY MidLoopTextIsStreamed
CHECK_DEADLOCK FALSE
