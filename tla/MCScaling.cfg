SPECIFICATION FairSpec
CONSTANTS
  Services = {"fraud", "analytics"}
  Alarm <- MCAlarm
  Policy <- MCPolicy
  Depths <- MCDepths
  KillList <- MCKillList
  MaxOps = 3
  Faults = {"throttled"}
INVARIANTS
  TypeOK
  AnnouncedKillHolds
PROPERTIES
  NoFlapping
  BacklogReachesMax
