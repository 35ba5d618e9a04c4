CONSTANTS
  HashWidth = 6
  Roots <- MCRoots
  Limits = {3}
  Batches = {2}
  ValidateNames = {"ack", "served"}
  Validate <- MCValidate
  GoalNames = {"ack1", "served2"}
  Goal <- MCGoal
  MessageHandler <- MCMessageHandler
  NextTimer <- MCNextTimer
  TriggerTimer <- MCTriggerTimer
  NodeHash <- MCNodeHash
  NodeEquals <- MCNodeEquals
  MsgHash <- MCMsgHash
  MsgEquals <- MCMsgEquals
  From <- MCFrom
  To <- MCTo
  StateHash <- MCStateHash
SPECIFICATION Spec
CHECK_DEADLOCK FALSE
INVARIANTS
  TypeOK
  FindTraceValid
  ValidateAccounts
