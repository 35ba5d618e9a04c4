CONSTANTS
  HashWidth = 6
  MaxDepth = 8
  MaxSession = 2
  MaxBallot = 2
  Nil = Nil
  Roots <- MCRoots
  MessageHandler <- MCMessageHandler
  NextTimer <- MCNextTimer
  TriggerTimer <- MCTriggerTimer
  NodeHash <- MCNodeHash
  NodeEquals <- MCNodeEquals
  MsgHash <- MCMsgHash
  MsgEquals <- MCMsgEquals
  From <- MCFrom
  To <- MCTo
  StateHash <- MCStateHash
SPECIFICATION Spec
CONSTRAINT DepthOfRoot
VIEW ConfigView
CHECK_DEADLOCK FALSE
INVARIANTS
  ChosenSafe
