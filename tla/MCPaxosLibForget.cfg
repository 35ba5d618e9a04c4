CONSTANTS
  NPeers = 3
  Seqs = {0}
  v1 = v1
  v2 = v2
  Values <- MCValues
  Nil = Nil
  MaxBallot = 1
  MaxStarts = 2
  Proposals <- MCProposals
  DoneApps = {0, 1, 2}
SPECIFICATION Spec
CHECK_DEADLOCK FALSE
INVARIANT ForgetsBelowMin
