SPECIFICATION Spec
CONSTANTS
  x1 = x1
  Txs = {x1}
  Bodies <- MCRoutedBodies
  Services = {"risk", "compliance"}
  MaxReceive <- MCMaxReceive
  DailyLimit <- MCDailyLimit
  Totals <- MCTotals
  Faults = {}
  BlockedUsers = {"mallory"}
  BlockedMerchants = {}
CHECK_DEADLOCK FALSE
INVARIANTS
  BreachedIsBlocked
