SPECIFICATION LiveSpec
CONSTANTS
  Versions = {1, 2}
  Floor = 1
  Devices = {frame}
  MaxAttempts = 2
  Keep = 50
  ReportMayBeLost = FALSE
  Kinds = {"ci"}
  ReportTokens = {"trial", "installed", "rollback", "fail", "deferred-battery"}
  MaxSeq = 7
  MaxSchedules = 1
  Frame = frame
  Factory = 1
  DeviceFloor = 1
  Broken = {}
  Hazards = {"lost"}
PROPERTIES BusyEnds
CHECK_DEADLOCK FALSE
