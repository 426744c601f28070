SPECIFICATION FairSpec
CONSTANTS
  m1 = m1
  m2 = m2
  m3 = m3
  t1 = t1
  t2 = t2
  west = west
  east = east
  alice = alice
  Messages = {m1, m2}
  Tasks = {t1}
  Queues = {west, east}
  QueueOf <- MCOneQueue
  Polls <- MCOnePoll
  MaxReceive = 2
  MaxMessages = 2
  Users = {alice}
  UserOf <- MCUserOf
  Amount <- MCAmount
  DailyLimit = 4
  CheckMode = "non-atomic"
  SyncMode = "dual-write"
  Peer <- MCPeer
  MaxEpoch = 0
  Faults = {"receive", "retention", "sns", "shutdown", "crash"}
CHECK_DEADLOCK FALSE
INVARIANTS
  DailySpendWithinLimit
  NoVerdictLost
PROPERTIES
  EventuallySettled
