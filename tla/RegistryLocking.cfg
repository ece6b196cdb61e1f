SPECIFICATION LiveSpec
CONSTANTS
  Versions = {1}
  Floor = 1
  Devices = {d1}
  MaxAttempts = 1
  Keep = 2
  ReportMayBeLost = FALSE
  Kinds = {"ci"}
  ReportTokens = {"fail"}
  MaxSeq = 3
  MaxSchedules = 1
  Pollers = {b1}
  Companions = {w1}
  Loops = {l1}
  Imports = {i1}
  Nobody = nobody
INVARIANTS SeenIsCurrent
PROPERTIES RegSpec OfferedIsScheduled EveryJobEnds
