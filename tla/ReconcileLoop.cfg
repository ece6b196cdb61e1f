SPECIFICATION RegSpec
CONSTANTS
  Versions = {1, 2}
  Floor = 1
  Devices = {d1}
  MaxAttempts = 2
  Keep = 3
  ReportMayBeLost = TRUE
  Kinds = {"ci"}
  ReportTokens = {"installed", "rollback", "deferred-battery"}
  MaxSeq = 4
  MaxSchedules = 2
INVARIANTS RegTypeOK EveryFailureCounts LoopIsClosedForm
PROPERTIES OffersStop OfferedIsKept
