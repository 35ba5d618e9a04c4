CONSTANTS
  HashWidth = 6
  MaxDepth = 3
  Roots <- MCRoots
  MessageHandler <- MCMessageHandler
  NextTimer <- MCNextTimer
  TriggerTimer <- MCTriggerTimer
  NodeHash <- MCNodeHash
  NodeEquals <- MCNodeEquals
  MsgHash <- MCMsgHash
  MsgEquals <- MCMsgEquals
  From <- MCFrom
  To <- MCTo
  StateHash <- MCStateHash
SPECIFICATION Spec
CHECK_DEADLOCK FALSE
INVARIANTS
  TypeOK
  HashSumsConsistent
  NextStatesExhaustive
  EqualsMatchesConfig
