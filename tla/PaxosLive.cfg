CONSTANTS
  Node <- Three
  FirstView <- Three
  LastInstance = 2
  Proposer = {1}
  MaxRuns = 2
  MaxCrashes = 1
  MaxLate = 0
  UninitN = {0}
SPECIFICATION FairSpec
PROPERTIES RunReturns ConfigLearns
CHECK_DEADLOCK FALSE
