SPECIFICATION Spec
CONSTANTS
  m1 = m1
  m2 = m2
  m3 = m3
  t1 = t1
  t2 = t2
  west = west
  east = east
  alice = alice
  Messages = {m1, m2}
  Tasks = {t1, t2}
  Queues = {west}
  QueueOf <- MCOneQueue
  Polls <- MCOnePoll
  MaxReceive = 2
  MaxMessages = 2
  Users = {alice}
  UserOf <- MCUserOf
  Amount <- MCAmount
  DailyLimit = 4
  CheckMode = "atomic"
  SyncMode = "single"
  Peer <- MCSelfPeer
  MaxEpoch = 1
  Faults = {"timeout", "delete", "redis", "sns"}
SYMMETRY MCSymmetry
CHECK_DEADLOCK FALSE
INVARIANTS
  ApprovalsShareNothing
  DeletedOnlyIfHandled
  OneAttemptPerReceive
PROPERTIES
  ImplementsLedger
