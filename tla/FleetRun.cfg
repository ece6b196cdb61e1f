SPECIFICATION LiveSpec
CONSTANTS
  Clients = {fleet, hand}
  Fleet = fleet
  Providers = {"adsbfi", "adsblol"}
  ProviderOrder <- Order
  Zones = {1, 2, 3}
  Devices = {1, 2, 3, 4}
  Live = 1
  ZoneOf <- Zoning
  MayHold = {3}
  Spacing = 1
  Pause = 10
  LockWait = 2
  MaxZones = 3
  Latencies = {0}
  MaxBack = 1
  Deadline = 4
  Period = 5
  CycleTimes = {1}
  PollWait = 2
  FailingZones = {2}
  MaxUpsets = 2
  None = none
  Nobody = nobody
INVARIANTS TypeOK
PROPERTIES RequestsSpaced PauseHonoured PauseEnds 
