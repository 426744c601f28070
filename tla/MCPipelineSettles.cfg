SPECIFICATION FairSpec
CONSTANTS
  x1 = x1
  Txs = {x1}
  Bodies <- MCRoutedBodies
  Services = {"fraud", "risk"}
  MaxReceive <- MCMaxReceive
  DailyLimit <- MCDailyLimit
  Totals <- MCTotals
  Faults = {"dynamo", "redis", "crash"}
  BlockedUsers = {"mallory"}
  BlockedMerchants = {}
CHECK_DEADLOCK FALSE
PROPERTIES
  ImplementsFlow
  FraudDeadLettersReviewed
  AlertsDispatched
