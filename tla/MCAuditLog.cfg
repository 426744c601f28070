SPECIFICATION FairSpec
CONSTANTS
  m1 = m1
  m2 = m2
  m3 = m3
  t1 = t1
  q = q
  Messages = {m1, m2}
  Tasks = {t1}
  Queues = {q}
  QueueOf <- MCQueueOf
  Polls <- MCPolls
  MaxReceive = 2
  MaxMessages = 1
  BatchSize = 2
  MaxTwice = 1
  Crashes = TRUE
INVARIANTS
  RecordsConserved
PROPERTIES
  AppendedIsStored
