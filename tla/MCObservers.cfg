SPECIFICATION Spec
CONSTANTS
  t1 = t1
  t2 = t2
  t3 = t3
  t4 = t4
  t5 = t5
  k1 = k1
  k2 = k2
  k3 = k3
  Txs = {t1, t2, t3, t4, t5}
  Services = {"fraud", "risk", "compliance", "analytics", "audit-logging"}
  Routes <- MCRoutes
  BlockedUsers = {}
  BlockedMerchants = {}
  Body <- MCBody
  DailyLimit <- MCDailyLimit
  MaxHitches = 1
  Traffic = {t1, t2}
  Experiments = {t1, t2}
  Stoppable = {"transaction"}
  Plans <- MCPlans
  CheckTxs <- MCCheckTxs
  Retries = 1
  AuditTxs <- MCAuditTxs
  LoadUsers = 2
  Chaos = {k1, k2, k3}
  Op <- MCOp
  MaxEvents = 1
  Position <- MCPosition
  Stamp <- MCStamp
  PageSize = 1
  Questions <- MCQuestions
  Amounts <- MCAmounts
  Tools = {"verify", "reconcile", "cascade", "views", "chaos", "load"}
  Watched <- MCWatched
CHECK_DEADLOCK FALSE
INVARIANTS
  TypeOK
  NoFalseAlarm
  ExitZeroIsTrue
  ReconcileVerdictIsTrue
  CascadeWarningsAreTrue
  OnlyAcceptedAreLogged
  ScansAreComplete
  StagesReachTarget
  OnlyHighValueIsFiltered
PROPERTIES
  ToolsEnd
