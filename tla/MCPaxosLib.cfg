CONSTANTS
  NPeers = 3
  Seqs = {0}
  v1 = v1
  v2 = v2
  Values <- MCValues
  Nil = Nil
  MaxBallot = 2
  MaxStarts = 2
  Proposals <- MCProposals
  DoneApps = {0}
SPECIFICATION FairSpec
CHECK_DEADLOCK FALSE
INVARIANT TypeOK
PROPERTIES ImplementsConsensus DecisionSpreads
