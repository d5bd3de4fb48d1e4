CONSTANTS
  Node <- Three
  FirstView <- Three
  LastInstance = 2
  Proposer = {1, 2}
  MaxRuns = 2
  MaxCrashes = 0
  MaxLate = 1
  UninitN = {0}
SPECIFICATION Spec
INVARIANTS TypeOK Agreement ProposalsSafe CommittedWasChosen
CHECK_DEADLOCK FALSE
