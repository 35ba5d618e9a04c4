CONSTANTS
  HashWidth = 6
  Roots <- MCRoots
  Limits = {4, 7}
  ValidateNames = {"ack", "served"}
  Validate <- MCValidate
  GoalNames = {"ack2"}
  Goal <- MCGoal
  MessageHandler <- MCMessageHandler
  NextTimer <- MCNextTimer
  TriggerTimer <- MCTriggerTimer
  NodeHash <- MCNodeHash
  NodeEquals <- MCNodeEquals
  MsgHash <- MCMsgHash
  MsgEquals <- MCMsgEquals
  From <- MCFrom
  To <- MCTo
  StateHash <- MCStateHash
SPECIFICATION Spec
CHECK_DEADLOCK FALSE
INVARIANTS
  TypeOK
  FindAllExact
  FindAnswersGoal
  ReportsReplay
PROPERTIES
  NoConfigAdmittedTwice
