SPECIFICATION Spec
CONSTANTS
  x1 = x1
  Txs = {x1}
  Bodies <- MCBodies
  Services = {"fraud", "compliance", "analytics"}
  MaxReceive <- MCMaxReceive
  DailyLimit <- MCDailyLimit
  Totals <- MCTotals
  Faults = {"dynamo", "sns", "redis", "cloudwatch", "delete", "crash"}
  BlockedUsers = {"mallory"}
  BlockedMerchants = {}
CHECK_DEADLOCK FALSE
INVARIANTS
  RowBeforeEvent
  NoFindingLost
  CleanOnlyByClientPriority
