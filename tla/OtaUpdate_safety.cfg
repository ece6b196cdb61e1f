SPECIFICATION Spec
CONSTANTS
  Versions = {1, 2, 3}
  Floor = 1
  Devices = {frame}
  MaxAttempts = 2
  Keep = 50
  ReportMayBeLost = FALSE
  Kinds = {"ci"}
  ReportTokens = {"trial", "installed", "rollback", "fail", "deferred-battery"}
  MaxSeq = 5
  MaxSchedules = 2
  Frame = frame
  Factory = 1
  DeviceFloor = 2
  Broken = {2}
  Hazards = {"crash", "lost", "unrecorded"}
INVARIANTS TypeOK InstallIsReported StartsBounded NeverBricked TryIsScheduled
CHECK_DEADLOCK FALSE
