CONSTANTS
  MaxLogs = 3
  MaxFiles = 3
  MaxSeconds = 2
  MaxFaults = 2
  MaxAuditRangeLines = 2
  LineCounts = {3}
  Windows <- MCWindows
SPECIFICATION QuerySpec
INVARIANTS
  DiskIsTheLog
  RangeAnswers
PROPERTY WriterHeals
