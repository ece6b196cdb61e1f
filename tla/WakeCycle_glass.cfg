SPECIFICATION Spec
CONSTANTS
  Pictures = {p1, p2}
  FaultScreen = fault
  UpdatingScreen = updating
  Scrambled = scrambled
  Spacing = 60
  MaxGuardWait = 30
  ServerSleeps = {25}
  Latency = {0, 20}
  BackoffBase = 300
  BackoffMax = 21600
  CounterMax = 8
  Hazards = {"crash", "power", "button", "blitLate"}
INVARIANTS TypeOK HashIsOnGlass
