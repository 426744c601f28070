SPECIFICATION FairSpec
CONSTANTS
  Uploads = {1, 2}
  Files <- MCFiles
  PreviewRows = 1
  MaxStreams = 2
  MaxRestarts = 1
  Faults = {"service", "connection"}
CHECK_DEADLOCK FALSE
INVARIANTS
  TypeOK
  SummaryIsTrue
  OncePerSubmit
  KeptUntilSent
PROPERTIES
  RunsEnd
