SPECIFICATION Spec
CONSTANTS
  m1 = m1
  m2 = m2
  m3 = m3
  t1 = t1
  t2 = t2
  west = west
  east = east
  alice = alice
  Messages = {m1, m2, m3}
  Tasks = {t1, t2}
  Queues = {west, east}
  QueueOf <- MCQueueOf
  Polls <- MCPolls
  MaxReceive = 2
  MaxMessages = 1
  Users = {alice}
  UserOf <- MCUserOf
  Amount <- MCAmount
  DailyLimit = 4
  CheckMode = "atomic"
  SyncMode = "dual-write"
  Peer <- MCPeer
  MaxEpoch = 0
  Faults = {}
CHECK_DEADLOCK FALSE
INVARIANTS
  GlobalLimitEnforced
